---- MODULE Spec2Model ----
(***************************************************************************)
(* A model of the telemetry extraction core of nvtop-with-tpu:             *)
(*   src/src/extract_gpuinfo_nvidia.c   the NVML backend                   *)
(*   src/src/extract_gpuinfo_tpu.c      the TPU backend (worker thread)    *)
(* Each C handler is an action (or, where the handler loops over vendor    *)
(* calls or runs concurrently with another thread, a chain of actions      *)
(* sequenced by a program counter).  The vendor library, the dynamic       *)
(* loader, the subprocess and the wall clock are the environment: their    *)
(* answers are drawn with \E from the sets defined below.                  *)
(***************************************************************************)
EXTENDS Integers, Sequences, FiniteSets, TLC

(***************************************************************************)
(* Bounds of the model                                                     *)
(***************************************************************************)
\* Largest number of processes the vendor reports per category in the
\* buffer-growth specification.
MaxCount == 3
\* Largest number of processes per category in the correlation specification.
MaxListed == 1
\* Largest number of utilization samples the vendor returns in one poll.
MaxSamples == 2
\* Number of NVIDIA devices polled in the buffer-growth specification.
MaxDevices == 2
\* Largest number of unclosed dlopen calls on the vendor library.
MaxLoads == 2
\* Largest number of device blocks on the allocations list.
MaxAllocations == 2
\* Largest number of TPU chips discover_tpu_devices_num finds.
MaxChips == 2
\* Largest number of TPU worker threads created and not yet joined.
MaxThreads == 2
MaxRefreshed == 1
\* The wall clock runs from second 0 to second MaxSeconds.
MaxSeconds == 2
\* COMMON_PROCESS_LINEAR_REALLOC_INC is defined in
\* nvtop/extract_gpuinfo_common.h, which is not among the sources at hand;
\* the model takes a small increment so that the growth loops iterate.
COMMON_PROCESS_LINEAR_REALLOC_INC == 2

(***************************************************************************)
(* Program constants                                                       *)
(***************************************************************************)
NVML_SUCCESS == 0
NVML_ERROR_INSUFFICIENT_SIZE == 7
\* Any nvmlReturn_t other than the two the code names.
NVML_ERROR_OTHER == 999
NVML_CLOCK_GRAPHICS == 0
NVML_CLOCK_SM == 1
NVML_CLOCK_MEM == 2

Devices == 1..MaxDevices

\* PIDs the vendor lists as running, and one PID that is never listed.
PIDs == {1, 2}
StrangerPids == {3}
\* Sample timestamps (the watermark starts at 0, calloc).
TimeStamps == {1, 2}

Max2(a, b) == IF a >= b THEN a ELSE b
Min2(a, b) == IF a <= b THEN a ELSE b

RECURSIVE SeqsUpTo(_, _)
SeqsUpTo(S, n) ==
  IF n = 0 THEN {<<>>}
  ELSE SeqsUpTo(S, n - 1) \cup
       {Append(q, x) : q \in {r \in SeqsUpTo(S, n - 1) : Len(r) = n - 1}, x \in S}

(***************************************************************************)
(* State                                                                   *)
(***************************************************************************)
VARIABLES
  \* ---- NVML backend: process polling (gpuinfo_nvidia_get_running_processes)
  nv_pc,                       \* position of the caller inside the poll
  nv_dev,                      \* the device being polled
  nv_count,                    \* number of enumerated NVIDIA devices
  array_size,                  \* static size_t array_size
  retrieved_infos,             \* static nvmlProcessInfo_t *retrieved_infos
  true_graphics,               \* vendor: graphics-context processes
  true_compute,                \* vendor: compute-context processes
  graphical_count,
  compute_count,
  graphical_ret,               \* last_nvml_return_status at line 694
  compute_ret,                 \* last_nvml_return_status at line 710
  processes,                   \* per device: _gpu_info->processes[0..count)
  processes_count,             \* per device
  processes_array_size,        \* per device
  last_utilization_timestamp,  \* per device
  nvmlDeviceGetProcessUtilization, \* the optional entry point (resolved?)
  samples,                     \* the malloc'ed sample buffer, as filled
  samples_count,
  samples_live,                \* sample buffers allocated and not yet freed
  sampling_calls,              \* vendor sampling calls made in this poll
  newest_timestamp_candidate

nvProcVars == <<nv_pc, nv_dev, nv_count, array_size, retrieved_infos,
                true_graphics, true_compute, graphical_count, compute_count,
                graphical_ret, compute_ret, processes, processes_count,
                processes_array_size, last_utilization_timestamp,
                nvmlDeviceGetProcessUtilization, samples, samples_count,
                samples_live, sampling_calls, newest_timestamp_candidate>>

VARIABLES
  \* ---- NVML backend: gpuinfo_nvidia_refresh_dynamic_info (one device)
  dynamic_info,                \* gpu_info->base.dynamic_info
  getMaxClockFrom,             \* the local of line 491, as left by the call
  graphics_clock_valid,
  graphics_clock,
  sm_clock_valid,
  sm_clock,
  nvml_failed                  \* vendor: the queries that failed in the call

nvDynVars == <<dynamic_info, getMaxClockFrom, graphics_clock_valid,
               graphics_clock, sm_clock_valid, sm_clock, nvml_failed>>

\* The NVML library and its loading (gpuinfo_nvidia_init, _shutdown,
\* _last_error_string, _get_device_handles).
VARIABLES
  exports,                  \* symbol names libnvidia-ml.so defines
  libnvidia_ml_handle,      \* 0 is NULL
  dl_refcount,              \* dlopen calls on the library not yet closed
  local_error_string,
  last_nvml_return_status,
  nvml_sym,                 \* the entry-point pointers: the symbol each holds
  allocations,              \* blocks on the LIST_HEAD(allocations)
  nv_mask,                  \* *mask after get_device_handles
  nv_devices,               \* entries get_device_handles appended to *devices
  nv_args,                  \* what the last get_device_handles was given
  heap_overrun,             \* a store outside every allocated block happened
  nv_call                   \* the caller's last call and what it did

nvLibVars == <<exports, libnvidia_ml_handle, dl_refcount, local_error_string,
               last_nvml_return_status, nvml_sym, allocations, nv_mask,
               nv_devices, nv_args, heap_overrun, nv_call>>

\* The TPU backend (extract_gpuinfo_tpu.c).
VARIABLES
  tpu_chip_count,
  thread_should_exit,
  tpu_query_thread,         \* 0, or the id of the thread last created
  m,                        \* the mutex: 0 is unlocked, else the holder
  m_destroyed,
  popen_command,            \* "NULL", or the form of the command it holds
  gpu_infos,                \* "NULL" or "block"
  latest_chips_usage_data,  \* the shared usage table, one record per slot
  tpu_heap,                 \* live malloc blocks, per pointer that owns them
  tpu_double_free,          \* a block was freed that had been freed already
  tpu_out_of_bounds,        \* the table was indexed outside its allocation
  workers,                  \* thread id -> state of query_tpu_data_thread_fn
  tv,                       \* the wall clock (struct timeval)
  tpu_caller,               \* where the calling thread is
  tpu_devices,              \* device_id of the entries appended to *devices
  tpu_call,                 \* the caller's last call and what it returned
  tpu_refresh,              \* gpuinfo_tpu_refresh_dynamic_info under way: the
                            \* device_id and the local usage_data
  tpu_dynamic_info          \* device -> gpu_infos[device].base.dynamic_info

tpuReadVars == <<tpu_refresh, tpu_dynamic_info>>
tpuVars == <<tpu_chip_count, thread_should_exit, tpu_query_thread, m,
             m_destroyed, popen_command, gpu_infos, latest_chips_usage_data,
             tpu_heap, tpu_double_free, tpu_out_of_bounds, workers, tv,
             tpu_caller, tpu_devices, tpu_call, tpuReadVars>>

vars == <<nvProcVars, nvDynVars, nvLibVars, tpuVars>>

(***************************************************************************)
(* NVML backend: records                                                   *)
(***************************************************************************)
\* nvmlProcessInfo_t
ProcInfo(p, mem) == [pid |-> p, usedGpuMemory |-> mem]
\* A slot of retrieved_infos that reallocarray added and nobody wrote yet.
Indeterminate == [pid |-> -1, usedGpuMemory |-> -1]

\* nvmlProcessUtilizationSample_t (memUtil is never read by the backend).
Sample(p, t, u) ==
  [pid |-> p, timeStamp |-> t, smUtil |-> u[1], encUtil |-> u[2], decUtil |-> u[3]]

GoodUtils == {<<10, 20, 30>>, <<100, 100, 100>>}
BadUtils == {<<101, 0, 0>>, <<0, 101, 0>>, <<0, 0, 101>>}
SampleSet ==
  {Sample(p, t, u) : p \in PIDs, t \in TimeStamps, u \in GoodUtils}
    \cup {Sample(p, t, <<10, 20, 30>>) : p \in StrangerPids, t \in TimeStamps}
    \cup {Sample(1, 2, u) : u \in BadUtils}

\* What the vendor may list in the correlation specification: any sequence
\* of at most MaxListed listed PIDs per category.
ListedInfos == {ProcInfo(p, 64) : p \in PIDs}
UtilLists == SeqsUpTo(ListedInfos, MaxListed)
\* What the vendor may list in the buffer-growth specification: n processes,
\* told apart by their memory usage.
CountedList(n, base) == [i \in 1..n |-> ProcInfo(i, base + i)]
GrowGraphics == {CountedList(n, 100) : n \in 0..MaxCount}
GrowCompute == {CountedList(n, 200) : n \in 0..MaxCount}

\* struct gpu_process after memset(.., 0, ..)
ZeroProcess ==
  [type |-> "gpu_process_unknown", pid |-> 0, gpu_memory_usage |-> 0,
   gpu_usage |-> 0, encode_usage |-> 0, decode_usage |-> 0, valid |-> {}]

\* SET_VALID / SET_GPUINFO_PROCESS of nvtop/extract_gpuinfo_common.h: store
\* the value and set the field's validity bit.
SET_VALID(flag, valid) == valid \cup {flag}
SET_GPUINFO_PROCESS(p, fld, value) ==
  [p EXCEPT ![fld] = value,
            !.valid = SET_VALID("gpuinfo_process_" \o fld \o "_valid", @)]

(***************************************************************************)
(* gpuinfo_nvidia_get_process_utilization: the correlation loop            *)
(***************************************************************************)
\* The condition of lines 650-653.
SampleAccepted_NoEncCheck(s, p, watermark) ==
  /\ s.pid = p.pid
  /\ s.smUtil <= 100
  /\ s.decUtil <= 100
  /\ s.timeStamp > watermark
SampleAccepted_NoWatermark(s, p, watermark) ==
  /\ s.pid = p.pid
  /\ s.smUtil <= 100
  /\ s.encUtil <= 100
  /\ s.decUtil <= 100
SampleAccepted(s, p, watermark) ==
  /\ s.pid = p.pid
  /\ s.smUtil <= 100
  /\ s.encUtil <= 100
  /\ s.decUtil <= 100
  /\ s.timeStamp > watermark

\* The inner loop of lines 641-665: the first entry the sample matches
\* (process_matched stops the scan), 0 when it matches none.
FirstMatch(s, procs, watermark) ==
  LET hits == {j \in 1..Len(procs) : SampleAccepted(s, procs[j], watermark)}
  IN IF hits = {} THEN 0 ELSE CHOOSE j \in hits : \A k \in hits : j <= k

\* Lines 660-662.
StoreSample(p, s) ==
  SET_GPUINFO_PROCESS(
    SET_GPUINFO_PROCESS(
      SET_GPUINFO_PROCESS(p, "gpu_usage", s.smUtil),
      "encode_usage", s.encUtil),
    "decode_usage", s.decUtil)

\* Lines 657-658.
NewestCandidate(s, candidate) ==
  IF s.timeStamp > candidate THEN s.timeStamp ELSE candidate

\* The outer loop of lines 639-666, from sample i on.
RECURSIVE CorrelateFrom(_, _, _, _, _)
CorrelateFrom(i, smp, procs, watermark, candidate) ==
  IF i > Len(smp) THEN [processes |-> procs, newest |-> candidate]
  ELSE LET s == smp[i]
           j == FirstMatch(s, procs, watermark)
       IN IF j = 0
          THEN CorrelateFrom(i + 1, smp, procs, watermark, candidate)
          ELSE CorrelateFrom(i + 1, smp,
                             [procs EXCEPT ![j] = StoreSample(@, s)],
                             watermark, NewestCandidate(s, candidate))

(***************************************************************************)
(* gpuinfo_nvidia_get_running_processes: helpers                           *)
(***************************************************************************)
\* A reallocarray that hands out a fresh block without the old contents.
Regrown_Fresh(buf, n) == [i \in 1..n |-> Indeterminate]

\* reallocarray(retrieved_infos, array_size, ..): the contents are kept and
\* the added slots are indeterminate.
Regrown(buf, n) ==
  [i \in 1..n |-> IF i <= Len(buf) THEN buf[i] ELSE Indeterminate]

\* The vendor writes list into buf from offset off (0-based) on success.
VendorWrites(buf, off, list) ==
  [i \in 1..Len(buf) |->
     IF i > off /\ i <= off + Len(list) THEN list[i - off] ELSE buf[i]]

\* What a running-processes query may return when offered capacity cap for
\* the list the vendor holds: insufficient-size exactly when the capacity is
\* too small, success otherwise, or an unrelated error.
ListQueryReturns(cap, list) ==
  {IF cap < Len(list) THEN NVML_ERROR_INSUFFICIENT_SIZE ELSE NVML_SUCCESS,
   NVML_ERROR_OTHER}

\* Line 698: the capacity offered to the compute query.
ComputeCapacity_Whole(size, g) == size
ComputeCapacity(size, g) == size - g

\* Lines 715-717: the capacity of the device's entries for n processes,
\* from the capacity size.
ProcessesCapacity_Fit(n, size) == n + COMMON_PROCESS_LINEAR_REALLOC_INC
ProcessesCapacity(n, size) ==
  IF n > 0 /\ n > size THEN n + COMMON_PROCESS_LINEAR_REALLOC_INC ELSE size

\* Lines 725-734 without the memset of line 725: the entries the device
\* already has are overwritten in place.
RebuiltProcesses_InPlace(buf, g, c) ==
  [i \in 1..(g + c) |->
     [(IF i <= Len(processes[nv_dev]) THEN processes[nv_dev][i] ELSE ZeroProcess)
        EXCEPT
        !.type = IF i <= g THEN "gpu_process_graphical" ELSE "gpu_process_compute",
        !.pid = buf[i].pid,
        !.gpu_memory_usage = buf[i].usedGpuMemory,
        !.valid = SET_VALID("gpuinfo_process_gpu_memory_usage_valid", @)]]

\* Lines 725-734: the rebuilt entries [0, graphical_count + compute_count).
RebuiltProcesses(buf, g, c) ==
  [i \in 1..(g + c) |->
     [ZeroProcess EXCEPT
        !.type = IF i <= g THEN "gpu_process_graphical" ELSE "gpu_process_compute",
        !.pid = buf[i].pid,
        !.gpu_memory_usage = buf[i].usedGpuMemory,
        !.valid = SET_VALID("gpuinfo_process_gpu_memory_usage_valid", {})]]

(***************************************************************************)
(* gpuinfo_nvidia_get_running_processes, lines 672-737                     *)
(***************************************************************************)
NvProcFrame == UNCHANGED <<nvDynVars, nvLibVars, tpuVars>>

\* Lines 677-680: the caller polls device d; the vendor holds the two lists
\* for the duration of the two queries.  What earlier polls left in the
\* shared buffer is not relied upon by the code: the model marks every slot
\* Indeterminate at the start of a poll, so that a read of a slot the
\* vendor did not write in this poll shows as such.
NvStartPoll(d, GraphicsLists, ComputeLists) ==
  /\ nv_pc = "idle"
  /\ d \in 1..nv_count
  /\ \E gl \in GraphicsLists, cl \in ComputeLists :
       /\ true_graphics' = gl
       /\ true_compute' = cl
  /\ nv_dev' = d
  /\ processes_count' = [processes_count EXCEPT ![d] = 0]
  /\ graphical_count' = 0
  /\ compute_count' = 0
  /\ graphical_ret' = NVML_SUCCESS
  /\ compute_ret' = NVML_SUCCESS
  /\ sampling_calls' = 0
  /\ retrieved_infos' = [i \in 1..array_size |-> Indeterminate]
  /\ nv_pc' = "retry_query_graphical"
  /\ UNCHANGED <<nv_count, array_size, processes,
                 processes_array_size, last_utilization_timestamp,
                 nvmlDeviceGetProcessUtilization, samples, samples_count,
                 samples_live, newest_timestamp_candidate>>
  /\ NvProcFrame

\* Lines 681-696: one pass of the graphics growth loop.
NvQueryGraphical ==
  /\ nv_pc = "retry_query_graphical"
  /\ \E ret \in ListQueryReturns(array_size, true_graphics) :
       /\ graphical_ret' = ret
       /\ IF ret = NVML_ERROR_INSUFFICIENT_SIZE
          THEN /\ array_size' = array_size + COMMON_PROCESS_LINEAR_REALLOC_INC
               /\ \E allocated \in BOOLEAN :
                    IF allocated
                    THEN /\ retrieved_infos' = Regrown(retrieved_infos, array_size')
                         /\ nv_pc' = "retry_query_graphical"
                    ELSE /\ retrieved_infos' = <<>>
                         /\ nv_pc' = "exit"
               /\ UNCHANGED graphical_count
          ELSE /\ IF ret = NVML_SUCCESS
                  THEN /\ graphical_count' = Len(true_graphics)
                       /\ retrieved_infos' = VendorWrites(retrieved_infos, 0, true_graphics)
                  ELSE UNCHANGED <<graphical_count, retrieved_infos>>
               /\ nv_pc' = "retry_query_compute"
               /\ UNCHANGED array_size
  /\ UNCHANGED <<nv_dev, nv_count, true_graphics, true_compute, compute_count,
                 compute_ret, processes, processes_count, processes_array_size,
                 last_utilization_timestamp, nvmlDeviceGetProcessUtilization,
                 samples, samples_count, samples_live, sampling_calls,
                 newest_timestamp_candidate>>
  /\ NvProcFrame

\* Lines 697-712: one pass of the compute growth loop; the offered capacity
\* is what is left behind the graphics entries.
NvQueryCompute ==
  /\ nv_pc = "retry_query_compute"
  /\ \E ret \in ListQueryReturns(ComputeCapacity(array_size, graphical_count),
                                 true_compute) :
       /\ compute_ret' = ret
       /\ IF ret = NVML_ERROR_INSUFFICIENT_SIZE
          THEN /\ array_size' = array_size + COMMON_PROCESS_LINEAR_REALLOC_INC
               /\ \E allocated \in BOOLEAN :
                    IF allocated
                    THEN /\ retrieved_infos' = Regrown(retrieved_infos, array_size')
                         /\ nv_pc' = "retry_query_compute"
                    ELSE /\ retrieved_infos' = <<>>
                         /\ nv_pc' = "exit"
               /\ UNCHANGED compute_count
          ELSE /\ IF ret = NVML_SUCCESS
                  THEN /\ compute_count' = Len(true_compute)
                       /\ retrieved_infos' =
                            VendorWrites(retrieved_infos, graphical_count, true_compute)
                  ELSE UNCHANGED <<compute_count, retrieved_infos>>
               /\ nv_pc' = "fill"
               /\ UNCHANGED array_size
  /\ UNCHANGED <<nv_dev, nv_count, true_graphics, true_compute, graphical_count,
                 graphical_ret, processes, processes_count, processes_array_size,
                 last_utilization_timestamp, nvmlDeviceGetProcessUtilization,
                 samples, samples_count, samples_live, sampling_calls,
                 newest_timestamp_candidate>>
  /\ NvProcFrame

\* Lines 714-736 and 617-623: rebuild the device's entries, then enter
\* gpuinfo_nvidia_get_process_utilization.  The vendor's lists and the two
\* loop statuses are not used past this point; the model drops them.
NvFill ==
  /\ nv_pc = "fill"
  /\ LET d == nv_dev
         n == graphical_count + compute_count
         grow == n > 0 /\ n > processes_array_size[d]
     IN /\ processes_count' = [processes_count EXCEPT ![d] = n]
        /\ processes_array_size' =
             [processes_array_size EXCEPT ![d] = ProcessesCapacity(n, @)]
        /\ \E allocated \in BOOLEAN :
             /\ (~grow) => allocated
             /\ IF allocated
                THEN /\ processes' =
                          [processes EXCEPT
                             ![d] = IF n > 0
                                    THEN RebuiltProcesses(retrieved_infos,
                                                          graphical_count, compute_count)
                                    ELSE <<>>]
                     /\ nv_pc' = IF n # 0 /\ nvmlDeviceGetProcessUtilization
                                 THEN "probe" ELSE "idle"
                ELSE /\ processes' = [processes EXCEPT ![d] = <<>>]
                     /\ nv_pc' = "exit"
  /\ true_graphics' = <<>>
  /\ true_compute' = <<>>
  /\ graphical_ret' = NVML_SUCCESS
  /\ compute_ret' = NVML_SUCCESS
  /\ UNCHANGED <<nv_dev, nv_count, array_size, retrieved_infos,
                 graphical_count, compute_count, last_utilization_timestamp,
                 nvmlDeviceGetProcessUtilization, samples, samples_count,
                 samples_live, sampling_calls, newest_timestamp_candidate>>
  /\ NvProcFrame

\* free(samples), lines 634 and 668, on the count of live sample buffers.
FreeSamples_Leak(live) == live
FreeSamples(live) == live - 1

\* Lines 624-630: the size probe (NULL buffer, samples_count = 0).
NvProbe ==
  /\ nv_pc = "probe"
  /\ sampling_calls' = sampling_calls + 1
  /\ \/ \E ret \in {NVML_SUCCESS, NVML_ERROR_OTHER} :
          /\ nv_pc' = "idle"
          /\ samples_count' = 0
          /\ UNCHANGED <<samples, samples_live>>
     \/ \E n \in 1..MaxSamples :
          /\ samples_count' = n
          /\ samples' = <<>>
          /\ samples_live' = samples_live + 1
          /\ nv_pc' = "retry"
  /\ UNCHANGED <<nv_dev, nv_count, array_size, retrieved_infos, true_graphics,
                 true_compute, graphical_count, compute_count, graphical_ret,
                 compute_ret, processes, processes_count, processes_array_size,
                 last_utilization_timestamp, nvmlDeviceGetProcessUtilization,
                 newest_timestamp_candidate>>
  /\ NvProcFrame

\* Lines 631-666: the retry with the sized buffer and, on success, the
\* correlation loop over the returned samples.
NvRetry ==
  /\ nv_pc = "retry"
  /\ sampling_calls' = sampling_calls + 1
  /\ \/ \E ret \in {NVML_ERROR_INSUFFICIENT_SIZE, NVML_ERROR_OTHER} :
          /\ samples_live' = FreeSamples(samples_live)
          /\ samples_count' = 0
          /\ nv_pc' = "idle"
          /\ UNCHANGED <<samples, processes, newest_timestamp_candidate>>
     \/ \E smp \in SeqsUpTo(SampleSet, samples_count) :
          LET d == nv_dev
              out == CorrelateFrom(1, smp, processes[d],
                                   last_utilization_timestamp[d],
                                   last_utilization_timestamp[d])
          IN /\ samples' = smp
             /\ samples_count' = Len(smp)
             /\ processes' = [processes EXCEPT ![d] = out.processes]
             /\ newest_timestamp_candidate' = out.newest
             /\ nv_pc' = "correlated"
             /\ UNCHANGED samples_live
  /\ UNCHANGED <<nv_dev, nv_count, array_size, retrieved_infos, true_graphics,
                 true_compute, graphical_count, compute_count, graphical_ret,
                 compute_ret, processes_count, processes_array_size,
                 last_utilization_timestamp, nvmlDeviceGetProcessUtilization>>
  /\ NvProcFrame

\* Lines 667-669: publish the watermark, release the sample buffer and
\* return (the function's locals end here).
NvPublishWatermark ==
  /\ nv_pc = "correlated"
  /\ last_utilization_timestamp' =
       [last_utilization_timestamp EXCEPT ![nv_dev] = newest_timestamp_candidate]
  /\ samples' = <<>>
  /\ samples_count' = 0
  /\ newest_timestamp_candidate' = 0
  /\ samples_live' = FreeSamples(samples_live)
  /\ nv_pc' = "idle"
  /\ UNCHANGED <<nv_dev, nv_count, array_size, retrieved_infos, true_graphics,
                 true_compute, graphical_count, compute_count, graphical_ret,
                 compute_ret, processes, processes_count, processes_array_size,
                 nvmlDeviceGetProcessUtilization, sampling_calls>>
  /\ NvProcFrame

\* The state after a successful gpuinfo_nvidia_init and a
\* gpuinfo_nvidia_get_device_handles that enumerated n devices (calloc).
NvProcInit(n, resolved) ==
  /\ nv_pc = "idle"
  /\ nv_dev = 1
  /\ nv_count = n
  /\ array_size = 0
  /\ retrieved_infos = <<>>
  /\ true_graphics = <<>>
  /\ true_compute = <<>>
  /\ graphical_count = 0
  /\ compute_count = 0
  /\ graphical_ret = NVML_SUCCESS
  /\ compute_ret = NVML_SUCCESS
  /\ processes = [d \in Devices |-> <<>>]
  /\ processes_count = [d \in Devices |-> 0]
  /\ processes_array_size = [d \in Devices |-> 0]
  /\ last_utilization_timestamp = [d \in Devices |-> 0]
  /\ nvmlDeviceGetProcessUtilization \in resolved
  /\ samples = <<>>
  /\ samples_count = 0
  /\ samples_live = 0
  /\ sampling_calls = 0
  /\ newest_timestamp_candidate = 0

(***************************************************************************)
(* gpuinfo_nvidia_refresh_dynamic_info, lines 481-615                      *)
(***************************************************************************)
\* The vendor queries of one call.  The maximum-clock query of line 520 is
\* one query, issued for the domain getMaxClockFrom.
ClockQueries == {"ClockInfo_GRAPHICS", "ClockInfo_SM", "MaxClockInfo_GPU"}
\* Queries whose result the vendor writes straight into the record, with the
\* field and the flag each feeds (lines 526-535, 547-556, 569-614).
DirectQueries ==
  <<[query |-> "ClockInfo_MEM", field |-> "mem_clock_speed"],
    [query |-> "MaxClockInfo_MEM", field |-> "mem_clock_speed_max"],
    [query |-> "EncoderUtilization", field |-> "encoder_rate"],
    [query |-> "DecoderUtilization", field |-> "decoder_rate"],
    [query |-> "CurrPcieLinkGeneration", field |-> "pcie_link_gen"],
    [query |-> "CurrPcieLinkWidth", field |-> "pcie_link_width"],
    [query |-> "PcieThroughput_RX", field |-> "pcie_rx"],
    [query |-> "PcieThroughput_TX", field |-> "pcie_tx"],
    [query |-> "FanSpeed", field |-> "fan_speed"],
    [query |-> "Temperature", field |-> "gpu_temp"],
    [query |-> "PowerUsage", field |-> "power_draw"],
    [query |-> "EnforcedPowerLimit", field |-> "power_draw_max"]>>
OtherQueries ==
  {DirectQueries[i].query : i \in 1..Len(DirectQueries)}
    \cup {"UtilizationRates", "MemoryInfo"}

DynamicFields ==
  {"gpu_clock_speed", "gpu_clock_speed_max", "mem_clock_speed",
   "mem_clock_speed_max", "gpu_util_rate", "mem_util_rate", "encoder_rate",
   "decoder_rate", "total_memory", "free_memory", "used_memory",
   "pcie_link_gen", "pcie_link_width", "pcie_rx", "pcie_tx", "fan_speed",
   "gpu_temp", "power_draw", "power_draw_max"}

ValidFlag(fld) == "gpuinfo_" \o fld \o "_valid"

\* What the vendor answers.  Clock readings of the two candidate domains,
\* the maximum clock of each domain, memory readings, and one value for each
\* of the other queries.
ClockValues == {1000, 1200}
MaxClockOf(domain) == IF domain = NVML_CLOCK_GRAPHICS THEN 2000 ELSE 2100
MemInfos == {[total |-> 10000, used |-> 5000, free |-> 5000],
             [total |-> 3, used |-> 2, free |-> 1]}
DirectValue == 7
UtilizationGpu == 42

\* The failure patterns the vendor is given for the fourteen other queries,
\* each of which is handled by code of its own: none fails, any one of them
\* fails, or all of them fail.
FailurePatterns ==
  {{}} \cup {{q} : q \in OtherQueries} \cup {OtherQueries}

\* RESET_ALL and SET_GPUINFO_DYNAMIC of nvtop/extract_gpuinfo_common.h.
RESET_ALL(valid) == {}
SET_GPUINFO_DYNAMIC(di, fld, value) ==
  [di EXCEPT ![fld] = value, !.valid = SET_VALID(ValidFlag(fld), @)]

\* Lines 506-510.
ChooseMaxClockFrom_Graphics(gvalid, g, svalid, sm) == NVML_CLOCK_GRAPHICS
ChooseMaxClockFrom(gvalid, g, svalid, sm) ==
  IF gvalid /\ svalid /\ g < sm THEN NVML_CLOCK_SM
  ELSE IF ~gvalid /\ svalid THEN NVML_CLOCK_SM
  ELSE NVML_CLOCK_GRAPHICS

\* Lines 512-517.
CurrentClock(di, from, gvalid, g, svalid, sm) ==
  LET d1 == IF from = NVML_CLOCK_GRAPHICS /\ gvalid
            THEN SET_GPUINFO_DYNAMIC(di, "gpu_clock_speed", g) ELSE di
  IN IF from = NVML_CLOCK_SM /\ svalid
     THEN SET_GPUINFO_DYNAMIC(d1, "gpu_clock_speed", sm) ELSE d1

\* Lines 520-523: the vendor writes the maximum clock of the asked domain
\* into the record; the flag is set on success.
MaxClock(di, from, ok) ==
  IF ok
  THEN [di EXCEPT !.gpu_clock_speed_max = MaxClockOf(from),
                  !.valid = SET_VALID("gpuinfo_gpu_clock_speed_max_valid", @)]
  ELSE di

\* The pattern of lines 526-529 (and of every direct query): the vendor
\* writes the field, the flag is set when the call returned NVML_SUCCESS.
DirectQuery(di, q, failed) ==
  IF q.query \in failed THEN di
  ELSE [di EXCEPT ![q.field] = DirectValue,
                  !.valid = SET_VALID(ValidFlag(q.field), @)]

RECURSIVE DirectQueriesFrom(_, _, _)
DirectQueriesFrom(i, di, failed) ==
  IF i > Len(DirectQueries) THEN di
  ELSE DirectQueriesFrom(i + 1, DirectQuery(di, DirectQueries[i], failed), failed)

\* Lines 537-543.
UtilizationRates(di, failed) ==
  IF "UtilizationRates" \in failed THEN di
  ELSE SET_GPUINFO_DYNAMIC(di, "gpu_util_rate", UtilizationGpu)

\* Lines 558-566 with the percentage rounded to the nearest integer.
MemoryInfo_Rounded(di, failed, mem) ==
  IF "MemoryInfo" \in failed THEN di
  ELSE SET_GPUINFO_DYNAMIC(
         SET_GPUINFO_DYNAMIC(
           SET_GPUINFO_DYNAMIC(
             SET_GPUINFO_DYNAMIC(di, "total_memory", mem.total),
             "used_memory", mem.used),
           "free_memory", mem.free),
         "mem_util_rate", (mem.used * 200 + mem.total) \div (2 * mem.total))

\* Lines 558-566.
MemoryInfo(di, failed, mem) ==
  IF "MemoryInfo" \in failed THEN di
  ELSE SET_GPUINFO_DYNAMIC(
         SET_GPUINFO_DYNAMIC(
           SET_GPUINFO_DYNAMIC(
             SET_GPUINFO_DYNAMIC(di, "total_memory", mem.total),
             "used_memory", mem.used),
           "free_memory", mem.free),
         "mem_util_rate", (mem.used * 100) \div mem.total)

\* Line 493.
ResetValidity_Keep(di) == di
ResetValidity(di) == [di EXCEPT !.valid = RESET_ALL(@), !.encode_decode_shared = FALSE]

NvDynFrame == UNCHANGED <<nvProcVars, nvLibVars, tpuVars>>

\* The whole handler.  The order of the queries in the source does not
\* matter to the record, since each writes fields of its own.
NvRefreshDynamicInfo ==
  \E gclk \in ClockValues \cup {-1}, smclk \in ClockValues \cup {-1},
     maxok \in BOOLEAN, failed \in FailurePatterns, mem \in MemInfos :
    LET gvalid == gclk # -1
        svalid == smclk # -1
        from == ChooseMaxClockFrom(gvalid, gclk, svalid, smclk)
        d0 == ResetValidity(dynamic_info)
        d1 == CurrentClock(d0, from, gvalid, gclk, svalid, smclk)
        d2 == MaxClock(d1, from, maxok)
        d3 == UtilizationRates(d2, failed)
        d4 == MemoryInfo(d3, failed, mem)
        d5 == DirectQueriesFrom(1, d4, failed)
    IN /\ graphics_clock_valid' = gvalid
       /\ graphics_clock' = gclk
       /\ sm_clock_valid' = svalid
       /\ sm_clock' = smclk
       /\ getMaxClockFrom' = from
       /\ dynamic_info' = d5
       /\ nvml_failed' = failed
                            \cup (IF gvalid THEN {} ELSE {"ClockInfo_GRAPHICS"})
                            \cup (IF svalid THEN {} ELSE {"ClockInfo_SM"})
                            \cup (IF maxok THEN {} ELSE {"MaxClockInfo_GPU"})
       /\ NvDynFrame

\* The record of a device that get_device_handles has just allocated
\* (calloc): every field zero, no flag set.
NvDynInit ==
  /\ dynamic_info =
       [f \in DynamicFields \cup {"valid", "encode_decode_shared"} |->
          IF f = "valid" THEN {} ELSE IF f = "encode_decode_shared" THEN FALSE ELSE 0]
  /\ getMaxClockFrom = NVML_CLOCK_GRAPHICS
  /\ graphics_clock_valid = FALSE
  /\ graphics_clock = -1
  /\ sm_clock_valid = FALSE
  /\ sm_clock = -1
  /\ nvml_failed = {}


(***************************************************************************)
(* gpuinfo_nvidia_init, lines 226-374, and the calls of the vendor         *)
(* interface that depend on the library handle, lines 376-442              *)
(***************************************************************************)
\* The required entry points in the order init resolves them, each with the
\* symbol names tried, in order.
RequiredEntryPoints ==
  <<[fn |-> "nvmlInit", names |-> <<"nvmlInit_v2", "nvmlInit">>],
    [fn |-> "nvmlShutdown", names |-> <<"nvmlShutdown">>],
    [fn |-> "nvmlDeviceGetCount",
     names |-> <<"nvmlDeviceGetCount_v2", "nvmlDeviceGetCount">>],
    [fn |-> "nvmlDeviceGetHandleByIndex",
     names |-> <<"nvmlDeviceGetHandleByIndex_v2", "nvmlDeviceGetHandleByIndex">>],
    [fn |-> "nvmlErrorString", names |-> <<"nvmlErrorString">>],
    [fn |-> "nvmlDeviceGetName", names |-> <<"nvmlDeviceGetName">>],
    [fn |-> "nvmlDeviceGetMaxPcieLinkGeneration",
     names |-> <<"nvmlDeviceGetMaxPcieLinkGeneration">>],
    [fn |-> "nvmlDeviceGetMaxPcieLinkWidth",
     names |-> <<"nvmlDeviceGetMaxPcieLinkWidth">>],
    [fn |-> "nvmlDeviceGetTemperatureThreshold",
     names |-> <<"nvmlDeviceGetTemperatureThreshold">>],
    [fn |-> "nvmlDeviceGetClockInfo", names |-> <<"nvmlDeviceGetClockInfo">>],
    [fn |-> "nvmlDeviceGetMaxClockInfo", names |-> <<"nvmlDeviceGetMaxClockInfo">>],
    [fn |-> "nvmlDeviceGetUtilizationRates",
     names |-> <<"nvmlDeviceGetUtilizationRates">>],
    [fn |-> "nvmlDeviceGetMemoryInfo", names |-> <<"nvmlDeviceGetMemoryInfo">>],
    [fn |-> "nvmlDeviceGetCurrPcieLinkGeneration",
     names |-> <<"nvmlDeviceGetCurrPcieLinkGeneration">>],
    [fn |-> "nvmlDeviceGetCurrPcieLinkWidth",
     names |-> <<"nvmlDeviceGetCurrPcieLinkWidth">>],
    [fn |-> "nvmlDeviceGetPcieThroughput",
     names |-> <<"nvmlDeviceGetPcieThroughput">>],
    [fn |-> "nvmlDeviceGetFanSpeed", names |-> <<"nvmlDeviceGetFanSpeed">>],
    [fn |-> "nvmlDeviceGetTemperature", names |-> <<"nvmlDeviceGetTemperature">>],
    [fn |-> "nvmlDeviceGetPowerUsage", names |-> <<"nvmlDeviceGetPowerUsage">>],
    [fn |-> "nvmlDeviceGetEnforcedPowerLimit",
     names |-> <<"nvmlDeviceGetEnforcedPowerLimit">>],
    [fn |-> "nvmlDeviceGetEncoderUtilization",
     names |-> <<"nvmlDeviceGetEncoderUtilization">>],
    [fn |-> "nvmlDeviceGetDecoderUtilization",
     names |-> <<"nvmlDeviceGetDecoderUtilization">>],
    [fn |-> "nvmlDeviceGetGraphicsRunningProcesses",
     names |-> <<"nvmlDeviceGetGraphicsRunningProcesses">>],
    [fn |-> "nvmlDeviceGetComputeRunningProcesses",
     names |-> <<"nvmlDeviceGetComputeRunningProcesses">>]>>
OptionalSymbol == "nvmlDeviceGetProcessUtilization"

RequiredFns == {RequiredEntryPoints[i].fn : i \in 1..Len(RequiredEntryPoints)}
Range(f) == {f[i] : i \in DOMAIN f}
AllSymbols ==
  UNION {Range(RequiredEntryPoints[i].names) : i \in 1..Len(RequiredEntryPoints)}
    \cup {OptionalSymbol}

\* The libraries init is given: the complete one, each one lacking a single
\* symbol name, and each one lacking every name of one required entry point.
Libraries ==
  {AllSymbols} \cup {AllSymbols \ {n} : n \in AllSymbols}
    \cup {AllSymbols \ Range(RequiredEntryPoints[i].names) :
            i \in 1..Len(RequiredEntryPoints)}

\* dlsym under the names of one entry point, first name first (lines
\* 237-240): the symbol found, or "NULL".
RECURSIVE Dlsym(_, _, _)
Dlsym(lib, names, k) ==
  IF k > Len(names) THEN "NULL"
  ELSE IF names[k] \in lib THEN names[k]
  ELSE Dlsym(lib, names, k + 1)

\* Lines 237-356: the pointers are assigned one after the other; the first
\* that stays NULL ends the resolution.
RECURSIVE ResolveFrom(_, _, _)
ResolveFrom(i, lib, syms) ==
  IF i > Len(RequiredEntryPoints) THEN [syms |-> syms, resolved |-> TRUE]
  ELSE LET e == RequiredEntryPoints[i]
           found == Dlsym(lib, e.names, 1)
           assigned == [syms EXCEPT ![e.fn] = found]
       IN IF found = "NULL" THEN [syms |-> assigned, resolved |-> FALSE]
          ELSE ResolveFrom(i + 1, lib, assigned)

\* Lines 370-373, init_error_clean_exit: what becomes of the handle and how
\* many times it is closed.
CleanExit_Leak(handle) == [handle |-> handle, dlclosed |-> 0]
CleanExit(handle) == [handle |-> 0, dlclosed |-> 1]

NvLibFrame == UNCHANGED <<nvDynVars, tpuVars>>

Call(op, ret, invoked, dlopened, dlclosed) ==
  [op |-> op, ret |-> ret, invoked |-> invoked, dlopened |-> dlopened,
   dlclosed |-> dlclosed]

\* gpuinfo_nvidia_init.  dlopen_ok: one of the two names of the library can
\* be opened; init_ret: what the library's nvmlInit returns.
NvInit ==
  \E dlopen_ok \in BOOLEAN, init_ret \in {NVML_SUCCESS, NVML_ERROR_OTHER} :
    /\ nv_pc = "idle"
    /\ dl_refcount < MaxLoads
    /\ IF ~dlopen_ok
       THEN /\ libnvidia_ml_handle' = 0
            /\ local_error_string' = "dlerror"
            /\ nv_call' = Call("init", "false", {}, 0, 0)
            /\ UNCHANGED <<dl_refcount, nvml_sym, last_nvml_return_status,
                           nvmlDeviceGetProcessUtilization>>
       ELSE LET r == ResolveFrom(1, exports, nvml_sym)
                exit == CleanExit(1)
            IN /\ nvml_sym' = r.syms
               /\ IF ~r.resolved
                  THEN /\ libnvidia_ml_handle' = exit.handle
                       /\ dl_refcount' = dl_refcount + 1 - exit.dlclosed
                       /\ nv_call' = Call("init", "false", {}, 1, exit.dlclosed)
                       /\ UNCHANGED <<local_error_string, last_nvml_return_status,
                                      nvmlDeviceGetProcessUtilization>>
                  ELSE /\ libnvidia_ml_handle' = 1
                       /\ dl_refcount' = dl_refcount + 1
                       /\ nvmlDeviceGetProcessUtilization' = (OptionalSymbol \in exports)
                       /\ last_nvml_return_status' = init_ret
                       /\ local_error_string' =
                            IF init_ret = NVML_SUCCESS THEN "NULL" ELSE local_error_string
                       /\ nv_call' =
                            Call("init", IF init_ret = NVML_SUCCESS THEN "true" ELSE "false",
                                 {r.syms["nvmlInit"]}, 1, 0)
    /\ UNCHANGED <<exports, allocations, nv_mask, nv_devices, nv_args, heap_overrun>>
    /\ UNCHANGED <<nv_pc, nv_dev, nv_count, array_size, retrieved_infos,
                   true_graphics, true_compute, graphical_count, compute_count,
                   graphical_ret, compute_ret, processes, processes_count,
                   processes_array_size, last_utilization_timestamp, samples,
                   samples_count, samples_live, sampling_calls,
                   newest_timestamp_candidate>>
    /\ NvLibFrame

\* gpuinfo_nvidia_shutdown, lines 376-390.
NvShutdown ==
  /\ nv_pc = "idle"
  /\ IF libnvidia_ml_handle # 0
     THEN /\ libnvidia_ml_handle' = 0
          /\ dl_refcount' = dl_refcount - 1
          /\ local_error_string' = "didnt_call_gpuinfo_init"
          /\ nv_call' = Call("shutdown", "void", {nvml_sym["nvmlShutdown"]}, 0, 1)
     ELSE /\ nv_call' = Call("shutdown", "void", {}, 0, 0)
          /\ UNCHANGED <<libnvidia_ml_handle, dl_refcount, local_error_string>>
  /\ allocations' = 0
  /\ UNCHANGED <<exports, last_nvml_return_status, nvml_sym, nv_mask, nv_devices,
                 nv_args, heap_overrun>>
  /\ UNCHANGED nvProcVars
  /\ NvLibFrame

\* gpuinfo_nvidia_last_error_string, lines 392-401.
NvLastErrorString ==
  /\ nv_pc = "idle"
  /\ nv_call' =
       IF local_error_string # "NULL"
       THEN Call("last_error_string", local_error_string, {}, 0, 0)
       ELSE IF libnvidia_ml_handle # 0 /\ nvml_sym["nvmlErrorString"] # "NULL"
       THEN Call("last_error_string", "nvmlErrorString(last_nvml_return_status)",
                 {nvml_sym["nvmlErrorString"]}, 0, 0)
       ELSE Call("last_error_string", "An unanticipated error occurred", {}, 0, 0)
  /\ UNCHANGED <<exports, libnvidia_ml_handle, dl_refcount, local_error_string,
                 last_nvml_return_status, nvml_sym, allocations, nv_mask,
                 nv_devices, nv_args, heap_overrun>>
  /\ UNCHANGED nvProcVars
  /\ NvLibFrame

\* The selection mask of a caller that selects every device (ssize_t, all
\* ones).
SelectAll == {-1}

\* The device list a caller hands over (line 404): empty, or already holding
\* the device of another vendor.  Native NVML indices count from 0, the
\* foreign device is written as an index no NVML device has.
ForeignDevice == 100
EmptyList == {<<>>}
SuppliedLists == {<<>>, <<ForeignDevice>>}

\* Lines 425-439 with an enumeration that gives up at the first index whose
\* handle does not resolve.
RECURSIVE HandlesFrom_Abort(_, _, _, _, _, _)
HandlesFrom_Abort(i, n, mask, count, devices, unresolved) ==
  IF i >= n THEN [mask |-> mask, count |-> count, devices |-> devices]
  ELSE IF mask % 2 = 0
  THEN HandlesFrom_Abort(i + 1, n, mask \div 2, count, devices, unresolved)
  ELSE IF i \in unresolved
  THEN [mask |-> mask \div 2, count |-> count, devices |-> devices]
  ELSE HandlesFrom_Abort(i + 1, n, mask \div 2, count + 1, Append(devices, i),
                         unresolved)

\* Lines 425-439: the loop over the native indices i .. n-1.  unresolved
\* holds the indices for which nvmlDeviceGetHandleByIndex returns an error.
\* The mask is an ssize_t: (*mask & 1) is its value modulo 2 and *mask >>= 1
\* the arithmetic shift, the floor of the half, which leaves -1 at -1.
RECURSIVE HandlesFrom(_, _, _, _, _, _)
HandlesFrom(i, n, mask, count, devices, unresolved) ==
  IF i >= n THEN [mask |-> mask, count |-> count, devices |-> devices]
  ELSE IF mask % 2 = 0
  THEN HandlesFrom(i + 1, n, mask \div 2, count, devices, unresolved)
  ELSE IF i \in unresolved
  THEN HandlesFrom(i + 1, n, mask \div 2, count, devices, unresolved)
  ELSE HandlesFrom(i + 1, n, mask \div 2, count + 1, Append(devices, i), unresolved)

\* gpuinfo_nvidia_get_device_handles, lines 403-442.  The vendor and calloc
\* answer when they are asked: count_ret and num_devices are what
\* nvmlDeviceGetCount returns, calloc_null says that calloc returns NULL (out
\* of memory, or a zero-sized request answered with NULL), unresolved holds
\* the indices for which nvmlDeviceGetHandleByIndex returns an error.
NotAsked == [mask |-> 0, count_ret |-> -1, num_devices |-> -1, calloc_null |-> FALSE,
             unresolved |-> {}, supplied |-> <<>>]
Args(mask, count_ret, num_devices, calloc_null, unresolved, supplied) ==
  [mask |-> mask, count_ret |-> count_ret, num_devices |-> num_devices,
   calloc_null |-> calloc_null, unresolved |-> unresolved, supplied |-> supplied]

NvGetDeviceHandles(masks, counts, lists) ==
  \E mask \in masks, supplied \in lists :
    /\ nv_pc = "idle"
    /\ libnvidia_ml_handle = 0 \/ allocations < MaxAllocations
    /\ IF libnvidia_ml_handle = 0
       THEN /\ nv_args' = [NotAsked EXCEPT !.mask = mask, !.supplied = supplied]
            /\ nv_call' = Call("get_device_handles", "false", {}, 0, 0)
            /\ nv_mask' = mask
            /\ nv_devices' = supplied
            /\ UNCHANGED <<last_nvml_return_status, local_error_string,
                           allocations, heap_overrun, nv_count>>
       ELSE
         \/ /\ nv_args' = [NotAsked EXCEPT !.mask = mask, !.count_ret = NVML_ERROR_OTHER,
                                           !.supplied = supplied]
            /\ nv_call' = Call("get_device_handles", "false",
                               {nvml_sym["nvmlDeviceGetCount"]}, 0, 0)
            /\ last_nvml_return_status' = NVML_ERROR_OTHER
            /\ nv_mask' = mask
            /\ nv_devices' = supplied
            /\ UNCHANGED <<local_error_string, allocations, heap_overrun, nv_count>>
         \/ \E num_devices \in counts :
              /\ nv_args' = Args(mask, NVML_SUCCESS, num_devices, TRUE, {}, supplied)
              /\ nv_call' = Call("get_device_handles", "false",
                                 {nvml_sym["nvmlDeviceGetCount"]}, 0, 0)
              /\ last_nvml_return_status' = NVML_SUCCESS
              /\ local_error_string' = "strerror"
              /\ nv_mask' = mask
              /\ nv_devices' = supplied
              /\ UNCHANGED <<allocations, heap_overrun, nv_count>>
         \/ \E num_devices \in counts :
              \E unresolved \in SUBSET (0..(num_devices - 1)) :
                LET r == HandlesFrom(0, num_devices, mask, 0, supplied, unresolved)
                    asked == {i \in 0..(num_devices - 1) : (mask \div (2 ^ i)) % 2 = 1}
                IN /\ nv_args' = Args(mask, NVML_SUCCESS, num_devices, FALSE, unresolved,
                                   supplied)
                   /\ allocations' = allocations + 1
                   \* line 422 stores into gpu_infos[0], which a block of
                   \* zero elements does not have
                   /\ heap_overrun' = (heap_overrun \/ num_devices = 0)
                   /\ nv_mask' = r.mask
                   /\ nv_count' = r.count
                   /\ nv_devices' = r.devices
                   /\ last_nvml_return_status' =
                        IF asked = {} THEN NVML_SUCCESS
                        ELSE LET last == CHOOSE i \in asked : \A j \in asked : j <= i
                             IN IF last \in unresolved THEN NVML_ERROR_OTHER
                                ELSE NVML_SUCCESS
                   /\ nv_call' =
                        Call("get_device_handles", "true",
                             {nvml_sym["nvmlDeviceGetCount"]} \cup
                               (IF asked = {} THEN {}
                                ELSE {nvml_sym["nvmlDeviceGetHandleByIndex"]}), 0, 0)
                   /\ UNCHANGED local_error_string
    /\ UNCHANGED <<exports, libnvidia_ml_handle, dl_refcount, nvml_sym>>
    /\ UNCHANGED <<nv_pc, nv_dev, array_size, retrieved_infos, true_graphics,
                   true_compute, graphical_count, compute_count, graphical_ret,
                   compute_ret, processes, processes_count,
                   processes_array_size, last_utilization_timestamp,
                   nvmlDeviceGetProcessUtilization, samples, samples_count,
                   samples_live, sampling_calls, newest_timestamp_candidate>>
    /\ NvLibFrame

\* The static initial values (lines 159-165): no library loaded, no pointer
\* resolved, the "didn't call init" message.
NvLibInit ==
  /\ exports \in Libraries
  /\ libnvidia_ml_handle = 0
  /\ dl_refcount = 0
  /\ local_error_string = "didnt_call_gpuinfo_init"
  /\ last_nvml_return_status = NVML_SUCCESS
  /\ nvml_sym = [f \in RequiredFns |-> "NULL"]
  /\ allocations = 0
  /\ heap_overrun = FALSE
  /\ nv_mask = 0
  /\ nv_devices = <<>>
  /\ nv_args = [NotAsked EXCEPT !.mask = 0]
  /\ nv_call = Call("none", "void", {}, 0, 0)

\* The library state the polls run in: the complete library loaded by a
\* successful init, one block of devices allocated.
NvLibReady ==
  /\ exports = AllSymbols
  /\ libnvidia_ml_handle = 1
  /\ dl_refcount = 1
  /\ local_error_string = "NULL"
  /\ last_nvml_return_status = NVML_SUCCESS
  /\ nvml_sym = ResolveFrom(1, AllSymbols, [f \in RequiredFns |-> "NULL"]).syms
  /\ allocations = 1
  /\ heap_overrun = FALSE
  /\ nv_mask = 0
  /\ nv_devices = <<0>>
  /\ nv_args = Args(1, NVML_SUCCESS, 1, FALSE, {}, <<>>)
  /\ nv_call = Call("get_device_handles", "true",
                    {"nvmlDeviceGetCount_v2", "nvmlDeviceGetHandleByIndex_v2"}, 0, 0)


(***************************************************************************)
(* TPU backend: the subprocess output and its parsing                      *)
(***************************************************************************)
Threads == 1..MaxThreads

\* An output line is the sequence of its blank-separated fields.  A field is
\* a decimal integer, a decimal fraction (held in 1/10000) or a word (held
\* as its characters).
IntField(v) == [kind |-> "int", val |-> v, text |-> <<>>]
RealField(v) == [kind |-> "real", val |-> v, text |-> <<>>]
WordField(t) == [kind |-> "word", val |-> 0, text |-> t]

\* "0 100 1000 12.5000 chip1" and "1 50 1000 5.0000 v5litepod" (the lines
\* python_script prints, lines 102-104), two lines that do not have the
\* format, and the line of line 97.
LineChip0 ==
  <<IntField(0), IntField(100), IntField(1000), RealField(125000),
    WordField(<<"c", "h", "i", "p", "1">>)>>
LineChip1 ==
  <<IntField(1), IntField(50), IntField(1000), RealField(50000),
    WordField(<<"v", "5", "l", "i", "t", "e", "p", "o", "d">>)>>
LineFourFields ==
  <<IntField(0), IntField(100), IntField(1000), RealField(125000)>>
LineTraceback == <<WordField(<<"T", "r", "a", "c", "e", "b", "a", "c", "k">>)>>
LineSentinel ==
  <<WordField(<<"t", "p", "u", "_", "i", "n", "f", "o">>),
    WordField(<<"m", "i", "s", "s", "i", "n", "g">>)>>
WellFormedLines == {LineChip0, LineChip1}
MalformedLines == {LineFourFields, LineTraceback}
OutputLines == WellFormedLines \cup MalformedLines \cup {LineSentinel}

Take(t, n) == SubSeq(t, 1, Min2(Len(t), n))

\* sscanf(line, "%ld %ld %ld %lf %7[^,]", ...) of lines 183-185: the number
\* of conversions made, and the record they fill.  %ld converts an integer,
\* %lf an integer or a fraction, %7[^,] at most seven characters other than
\* a comma (a fifth field is held as a word, whatever its characters).
RECURSIVE Conversions(_, _)
Conversions(line, k) ==
  IF k > 5 \/ k > Len(line) THEN k - 1
  ELSE IF k <= 3 /\ line[k].kind # "int" THEN k - 1
  ELSE IF k = 4 /\ line[k].kind \notin {"int", "real"} THEN k - 1
  ELSE IF k = 5 /\ (line[k].kind # "word" \/ line[k].text[1] = ",") THEN k - 1
  ELSE Conversions(line, k + 1)

Sscanf(line) ==
  LET n == Conversions(line, 1)
  IN [n |-> n,
      usage_data |->
        IF n = 5
        THEN [name |-> Take(line[5].text, 7),
              device_id |-> line[1].val,
              memory_usage |-> line[2].val,
              total_memory |-> line[3].val,
              duty_cycle_pct |->
                IF line[4].kind = "int" THEN 10000 * line[4].val ELSE line[4].val]
        ELSE [name |-> <<>>, device_id |-> 0, memory_usage |-> 0,
              total_memory |-> 0, duty_cycle_pct |-> 0]]

\* Line 174: strcmp(line, "tpu_info missing") == 0.
IsSentinel(line) == line = LineSentinel

\* reset_tpu_statistics, lines 229-241, on the slots 0 .. count-1.
ResetSlot(slot, fully) ==
  IF fully
  THEN [name |-> <<"N", "/", "A">>, device_id |-> 0, memory_usage |-> 0,
        total_memory |-> 0, duty_cycle_pct |-> 0]
  ELSE [slot EXCEPT !.memory_usage = 0, !.duty_cycle_pct = 0]
reset_tpu_statistics(table, count, fully) ==
  [i \in DOMAIN table |->
     IF i <= count THEN ResetSlot(table[i], fully) ELSE table[i]]

\* millis(), lines 85-89.
millis(t) == 1000000 * t.tv_sec + t.tv_usec \div 1000

\* The instants the clock is read at: the start of a second and 10 ms before
\* the next one.
ClockUsec == {0, 990000}
Micros(t) == 1000000 * t.tv_sec + t.tv_usec
\* usleep(10 * 1000), line 222: the clock when it returns, at least 10 ms
\* and at most a second later (the clock stands still at its last instant).
AfterUsleep(t) ==
  LET later == {x \in [tv_sec : 0..MaxSeconds, tv_usec : ClockUsec] :
                  /\ Micros(x) >= Micros(t) + 10 * 1000
                  /\ Micros(x) <= Micros(t) + 1000000}
  IN IF later = {} THEN {t} ELSE later

\* Line 219.
NextFails_NoClear(success, fails_in_a_row) == Min2(fails_in_a_row + 1, 10)
NextFails(success, fails_in_a_row) ==
  IF success THEN 0 ELSE Min2(fails_in_a_row + 1, 10)

\* Lines 176-177: what the sentinel line does to thread_should_exit and
\* tpu_chip_count.
OnSentinel_Ignore(exit, count) == [thread_should_exit |-> exit, tpu_chip_count |-> count]
OnSentinel(exit, count) == [thread_should_exit |-> TRUE, tpu_chip_count |-> 0]

\* setup_populate_tpu_data, lines 120-151: the form of the command written
\* into the block just allocated.  file_written: mkstemp and write succeeded.
setup_populate_tpu_data_Compiled(avoid_py_compile, file_written) == "py_compile"
setup_populate_tpu_data(avoid_py_compile, file_written) ==
  IF ~avoid_py_compile /\ file_written THEN "py_compile" ELSE "inline"

\* free(p) and malloc on the count of live blocks owned through one pointer.
Freed(heap, ptr) == [heap EXCEPT ![ptr] = IF @ > 0 THEN @ - 1 ELSE 0]
Allocated(heap, ptr) == [heap EXCEPT ![ptr] = @ + 1]

NoThread ==
  [pc |-> "none", t |-> 0, fails_in_a_row |-> 0, id |-> 0, success |-> FALSE,
   usage_data |-> Sscanf(<<>>).usage_data,
   parsed |-> 0, malformed |-> 0, sentinel |-> FALSE, prev_failed |-> FALSE,
   \* what mkstemp and write answered when this thread set up the command
   file_written |-> FALSE,
   \* the line in the buffer, read and not handled, when line 166 left the
   \* loop
   line |-> <<>>]

\* No gpuinfo_tpu_refresh_dynamic_info under way.
NoRefresh == [device_id |-> -1, usage_data |-> Sscanf(<<>>).usage_data]

\* A dynamic_info as calloc leaves it (line 293): nothing valid.
NoDynamicInfo ==
  [gpu_util_rate |-> 0, mem_util_rate |-> 0, total_memory |-> 0,
   used_memory |-> 0, free_memory |-> 0, valid |-> {}]

TpuFrame == UNCHANGED <<nvProcVars, nvDynVars, nvLibVars>>

(***************************************************************************)
(* TPU backend: the worker thread, lines 153-227                           *)
(***************************************************************************)
WorkerFrame ==
  /\ UNCHANGED <<tpu_query_thread, m_destroyed, gpu_infos, tpu_caller,
                 tpu_devices, tpu_call, tpuReadVars>>
  /\ TpuFrame

\* Lines 215-216.
WorkerStart(w) ==
  /\ workers[w].pc = "start"
  /\ workers' = [workers EXCEPT ![w].pc = "loop", ![w].t = millis(tv),
                                ![w].fails_in_a_row = 0]
  /\ UNCHANGED <<tpu_chip_count, thread_should_exit, m, popen_command,
                 latest_chips_usage_data, tpu_heap, tpu_double_free,
                 tpu_out_of_bounds, tv>>
  /\ WorkerFrame

\* Line 217, and the cycle's start, lines 153-164: the loop test, the early
\* return of populate_tpu_data, the first setup of the command, popen.
WorkerLoop(w) ==
  /\ workers[w].pc = "loop"
  /\ IF thread_should_exit
     THEN /\ workers' = [workers EXCEPT ![w].pc = "done"]
          /\ UNCHANGED <<popen_command, tpu_heap>>
     ELSE IF tpu_chip_count <= 0
     THEN /\ workers' = [workers EXCEPT ![w].pc = "scored", ![w].success = FALSE]
          /\ UNCHANGED <<popen_command, tpu_heap>>
     ELSE IF popen_command = "NULL"
     THEN \E file_written \in BOOLEAN :
            /\ popen_command' = setup_populate_tpu_data(FALSE, file_written)
            /\ tpu_heap' = Allocated(tpu_heap, "popen_command")
            /\ workers' = [workers EXCEPT ![w].pc = "read", ![w].id = 0,
                                          ![w].file_written = file_written]
     ELSE /\ workers' = [workers EXCEPT ![w].pc = "read", ![w].id = 0]
          /\ UNCHANGED <<popen_command, tpu_heap>>
  /\ UNCHANGED <<tpu_chip_count, thread_should_exit, m,
                 latest_chips_usage_data, tpu_double_free, tpu_out_of_bounds, tv>>
  /\ WorkerFrame

\* Line 166: the loop is left with the line just read.
LoopLeft_Disabled(count, id) == count = 0
LoopLeft(count, id) == count = 0 \/ id >= count

\* One pass of the loop of lines 165-194 up to the lock: fgets returns NULL
\* or the next line the subprocess printed, one of lines.
WorkerReadOf(w, lines) ==
  /\ workers[w].pc = "read"
  /\ \/ /\ workers' = [workers EXCEPT ![w].pc = "eof"]
        /\ UNCHANGED <<tpu_chip_count, thread_should_exit>>
     \/ \E line \in lines :
          LET id == workers[w].id
              scanned == Sscanf(line)
              sentinel == OnSentinel(thread_should_exit, tpu_chip_count)
          IN IF LoopLeft(tpu_chip_count, id)
             THEN /\ workers' = [workers EXCEPT ![w].pc = "eof", ![w].line = line]
                  /\ UNCHANGED <<tpu_chip_count, thread_should_exit>>
             ELSE IF id = 0 /\ IsSentinel(line)
             THEN /\ thread_should_exit' = sentinel.thread_should_exit
                  /\ tpu_chip_count' = sentinel.tpu_chip_count
                  /\ workers' = [workers EXCEPT ![w].pc = "eof", ![w].sentinel = TRUE]
             ELSE IF scanned.n = 5
             THEN /\ workers' = [workers EXCEPT ![w].pc = "lock",
                                               ![w].usage_data = scanned.usage_data]
                  /\ UNCHANGED <<tpu_chip_count, thread_should_exit>>
             ELSE /\ workers' = [workers EXCEPT ![w].id = id + 1,
                                               ![w].malformed = @ + 1]
                  /\ UNCHANGED <<tpu_chip_count, thread_should_exit>>
  /\ UNCHANGED <<m, popen_command, latest_chips_usage_data, tpu_heap,
                 tpu_double_free, tpu_out_of_bounds, tv>>
  /\ WorkerFrame

\* pthread_mutex_lock(&m) by thread w.  On the mutex that
\* gpuinfo_tpu_shutdown has destroyed (line 261) the call is undefined: it
\* takes the mutex as before, or returns an error and takes nothing.
MutexLock_None(w) == UNCHANGED m
MutexLock(w) ==
  \/ m = 0 /\ m' = w
  \/ m_destroyed /\ m # w /\ UNCHANGED m
\* pthread_mutex_unlock(&m) by thread w.
MutexUnlock(w) == m' = IF m = w THEN 0 ELSE m

\* Line 187.
WorkerLock(w) ==
  /\ workers[w].pc = "lock"
  /\ MutexLock(w)
  /\ workers' = [workers EXCEPT ![w].pc = "store"]
  /\ UNCHANGED <<tpu_chip_count, thread_should_exit, popen_command,
                 latest_chips_usage_data, tpu_heap, tpu_double_free,
                 tpu_out_of_bounds, tv>>
  /\ WorkerFrame

\* Lines 188-193: the slot written is the one of the line's position.
WorkerStore(w) ==
  /\ workers[w].pc = "store"
  /\ LET slot == workers[w].id + 1
     IN IF slot \in DOMAIN latest_chips_usage_data
        THEN /\ latest_chips_usage_data' =
                  [latest_chips_usage_data EXCEPT ![slot] = workers[w].usage_data]
             /\ UNCHANGED tpu_out_of_bounds
        ELSE /\ tpu_out_of_bounds' = TRUE
             /\ UNCHANGED latest_chips_usage_data
  /\ MutexUnlock(w)
  /\ workers' = [workers EXCEPT ![w].pc = "read", ![w].id = @ + 1,
                                ![w].parsed = @ + 1,
                                ![w].usage_data = NoThread.usage_data]
  /\ UNCHANGED <<tpu_chip_count, thread_should_exit, popen_command, tpu_heap,
                 tpu_double_free, tv>>
  /\ WorkerFrame

\* Lines 195-210: pclose, the fallback to the inline command, the score.
WorkerEof(w) ==
  /\ workers[w].pc = "eof"
  /\ IF tpu_chip_count > 0 /\ workers[w].id = 0
     THEN /\ popen_command' = setup_populate_tpu_data(TRUE, FALSE)
          /\ tpu_heap' =
               Allocated(IF popen_command # "NULL"
                         THEN Freed(tpu_heap, "popen_command") ELSE tpu_heap,
                         "popen_command")
          /\ tpu_double_free' =
               (tpu_double_free \/
                (popen_command # "NULL" /\ tpu_heap["popen_command"] = 0))
     ELSE UNCHANGED <<popen_command, tpu_heap, tpu_double_free>>
  /\ workers' = [workers EXCEPT ![w].pc = "scored",
                                ![w].success = (workers[w].id = tpu_chip_count)]
  /\ UNCHANGED <<tpu_chip_count, thread_should_exit, m,
                 latest_chips_usage_data, tpu_out_of_bounds, tv>>
  /\ WorkerFrame

\* What the thread function forgets when the handling of a cycle ends.
CycleEnd(wk) ==
  [wk EXCEPT !.pc = "sleep", !.prev_failed = ~wk.success, !.success = FALSE,
             !.id = 0, !.parsed = 0, !.malformed = 0, !.file_written = FALSE,
             !.line = <<>>]

\* Lines 218-220, after populate_tpu_data has returned.
WorkerScore(w) ==
  /\ workers[w].pc = "scored"
  /\ LET fails == NextFails(workers[w].success, workers[w].fails_in_a_row)
     IN workers' =
          [workers EXCEPT ![w] =
             IF fails >= 2
             THEN [@ EXCEPT !.pc = "reset_lock", !.fails_in_a_row = fails]
             ELSE CycleEnd([@ EXCEPT !.fails_in_a_row = fails])]
  /\ UNCHANGED <<tpu_chip_count, thread_should_exit, m, popen_command,
                 latest_chips_usage_data, tpu_heap, tpu_double_free,
                 tpu_out_of_bounds, tv>>
  /\ WorkerFrame

\* reset_tpu_statistics(false), line 230.
WorkerResetLock(w) ==
  /\ workers[w].pc = "reset_lock"
  /\ MutexLock(w)
  /\ workers' = [workers EXCEPT ![w].pc = "reset"]
  /\ UNCHANGED <<tpu_chip_count, thread_should_exit, popen_command,
                 latest_chips_usage_data, tpu_heap, tpu_double_free,
                 tpu_out_of_bounds, tv>>
  /\ WorkerFrame

\* reset_tpu_statistics(false), lines 231-240.
WorkerReset(w) ==
  /\ workers[w].pc = "reset"
  /\ latest_chips_usage_data' =
       reset_tpu_statistics(latest_chips_usage_data, tpu_chip_count, FALSE)
  /\ tpu_out_of_bounds' =
       (tpu_out_of_bounds \/ tpu_chip_count > Len(latest_chips_usage_data))
  /\ MutexUnlock(w)
  /\ workers' = [workers EXCEPT ![w] = CycleEnd(@)]
  /\ UNCHANGED <<tpu_chip_count, thread_should_exit, popen_command, tpu_heap,
                 tpu_double_free, tv>>
  /\ WorkerFrame

\* Line 223: the test that sends the worker into another usleep.
SleepAgain_Timed(exit, elapsed) == elapsed < 1000
SleepAgain(exit, elapsed) == ~exit /\ elapsed < 1000

\* One pass of the loop of lines 221-223, and line 224 when it is left.
WorkerSleep(w) ==
  /\ workers[w].pc = "sleep"
  /\ \E now \in AfterUsleep(tv) :
       /\ tv' = now
       /\ workers' =
            IF SleepAgain(thread_should_exit, millis(now) - workers[w].t)
            THEN workers
            ELSE [workers EXCEPT ![w].pc = "loop", ![w].t = millis(now)]
  /\ UNCHANGED <<tpu_chip_count, thread_should_exit, m, popen_command,
                 latest_chips_usage_data, tpu_heap, tpu_double_free,
                 tpu_out_of_bounds>>
  /\ WorkerFrame

WorkerRead(w) == WorkerReadOf(w, OutputLines)

\* The thread function run on a subprocess that prints lines of lines.
WorkerOn(w, lines) ==
  \/ WorkerStart(w)
  \/ WorkerLoop(w)
  \/ WorkerReadOf(w, lines)
  \/ WorkerLock(w)
  \/ WorkerStore(w)
  \/ WorkerEof(w)
  \/ WorkerScore(w)
  \/ WorkerResetLock(w)
  \/ WorkerReset(w)
  \/ WorkerSleep(w)

Worker(w) ==
  \/ WorkerStart(w)
  \/ WorkerLoop(w)
  \/ WorkerRead(w)
  \/ WorkerLock(w)
  \/ WorkerStore(w)
  \/ WorkerEof(w)
  \/ WorkerScore(w)
  \/ WorkerResetLock(w)
  \/ WorkerReset(w)
  \/ WorkerSleep(w)

(***************************************************************************)
(* TPU backend: the calls of the vendor interface, lines 243-297           *)
(***************************************************************************)
\* device: the device_id of the gpu_info the call was given, -1 for a call
\* that takes none.
TpuCall(op, ret, joined) ==
  [op |-> op, ret |-> ret, joined |-> joined, device |-> -1]

\* gpuinfo_tpu_init, lines 243-253.  found: what discover_tpu_devices_num
\* returns.
TpuInit ==
  \E found \in 0..MaxChips :
    /\ tpu_caller = "idle"
    /\ tpu_chip_count' = found
    /\ IF found = 0
       THEN /\ tpu_call' = TpuCall("init", "false", FALSE)
            /\ UNCHANGED <<latest_chips_usage_data, tpu_heap, m>>
       ELSE /\ m = 0
            /\ UNCHANGED m
            /\ tpu_heap' = Allocated(tpu_heap, "latest_chips_usage_data")
            /\ latest_chips_usage_data' =
                 reset_tpu_statistics([i \in 1..found |-> NoThread.usage_data],
                                      found, TRUE)
            /\ tpu_call' = TpuCall("init", "true", FALSE)
    /\ UNCHANGED <<thread_should_exit, tpu_query_thread, m_destroyed,
                   popen_command, gpu_infos, tpu_double_free,
                   tpu_out_of_bounds, workers, tv, tpu_caller, tpu_devices,
                   tpuReadVars>>
    /\ TpuFrame

\* gpuinfo_tpu_get_device_handles, lines 289-297 (with add_tpu_chip, lines
\* 275-287).  calloc_null: calloc returns NULL.
TpuGetDeviceHandles ==
  /\ tpu_caller = "idle"
  /\ IF tpu_chip_count <= 0
     THEN /\ tpu_call' = TpuCall("get_device_handles", "false", FALSE)
          /\ tpu_devices' = <<>>
          /\ UNCHANGED <<tpu_query_thread, workers, gpu_infos, tpu_heap,
                         tpu_dynamic_info>>
     ELSE \E w \in Threads, calloc_null \in BOOLEAN :
            /\ workers[w].pc = "none"
            /\ \A v \in 1..(w - 1) : workers[v].pc # "none"
            /\ workers' = [workers EXCEPT ![w].pc = "start"]
            /\ tpu_query_thread' = w
            /\ IF calloc_null
               THEN /\ gpu_infos' = "NULL"
                    /\ tpu_devices' = <<>>
                    /\ tpu_dynamic_info' = <<>>
                    /\ tpu_call' = TpuCall("get_device_handles", "false", FALSE)
                    /\ UNCHANGED tpu_heap
               ELSE /\ gpu_infos' = "block"
                    /\ tpu_heap' = Allocated(tpu_heap, "gpu_infos")
                    /\ tpu_devices' = [i \in 1..tpu_chip_count |-> i - 1]
                    \* calloc hands out the records zeroed
                    /\ tpu_dynamic_info' = [i \in 1..tpu_chip_count |-> NoDynamicInfo]
                    /\ tpu_call' = TpuCall("get_device_handles", "true", FALSE)
  /\ UNCHANGED <<tpu_chip_count, thread_should_exit, m, m_destroyed,
                 popen_command, latest_chips_usage_data, tpu_double_free,
                 tpu_out_of_bounds, tv, tpu_caller, tpu_refresh>>
  /\ TpuFrame

\* Lines 261-270 of gpuinfo_tpu_shutdown, after the join.
ShutdownRest(joined) ==
  /\ m_destroyed' = TRUE
  /\ gpu_infos' = "NULL"
  /\ popen_command' = "NULL"
  /\ tpu_heap' =
       LET h == IF gpu_infos # "NULL" THEN Freed(tpu_heap, "gpu_infos") ELSE tpu_heap
       IN IF popen_command # "NULL" THEN Freed(h, "popen_command") ELSE h
  /\ tpu_double_free' =
       (\/ tpu_double_free
        \/ gpu_infos # "NULL" /\ tpu_heap["gpu_infos"] = 0
        \/ popen_command # "NULL" /\ tpu_heap["popen_command"] = 0)
  /\ tpu_dynamic_info' = <<>>
  /\ tpu_chip_count' = -1
  /\ tpu_caller' = "idle"
  /\ tpu_call' = TpuCall("shutdown", "void", joined)

\* gpuinfo_tpu_shutdown, lines 255-260: the flag is raised; with a thread to
\* join the caller waits in pthread_join.
TpuShutdown ==
  /\ tpu_caller = "idle"
  /\ thread_should_exit' = TRUE
  /\ IF tpu_query_thread # 0
     THEN /\ tpu_caller' = "pthread_join"
          /\ UNCHANGED <<tpu_chip_count, m_destroyed, popen_command, gpu_infos,
                         tpu_heap, tpu_double_free, tpu_call, tpu_dynamic_info>>
     ELSE ShutdownRest(FALSE)
  /\ UNCHANGED <<tpu_query_thread, m, latest_chips_usage_data,
                 tpu_out_of_bounds, workers, tv, tpu_devices, tpu_refresh>>
  /\ TpuFrame

\* pthread_join returns when the thread function has returned; the rest of
\* gpuinfo_tpu_shutdown follows.
TpuShutdownJoin ==
  /\ tpu_caller = "pthread_join"
  /\ workers[tpu_query_thread].pc = "done"
  /\ workers' = [workers EXCEPT ![tpu_query_thread] = NoThread]
  /\ tpu_query_thread' = 0
  /\ ShutdownRest(TRUE)
  /\ UNCHANGED <<thread_should_exit, m, latest_chips_usage_data,
                 tpu_out_of_bounds, tv, tpu_devices, tpu_refresh>>
  /\ TpuFrame

(***************************************************************************)
(* TPU backend: gpuinfo_tpu_refresh_dynamic_info, lines 309-329            *)
(***************************************************************************)
\* The calling thread as a holder of the mutex.
MainThread == MaxThreads + 1

\* round(num / den) for den > 0: to the nearest integer, halves away from
\* zero.
Round(num, den) ==
  IF num >= 0 THEN (2 * num + den) \div (2 * den)
  ELSE 0 - ((2 * (0 - num) + den) \div (2 * den))

\* Lines 320-326 on the copy usage_data (duty_cycle_pct is held in 1/10000).
DynamicInfoOf(di, usage_data) ==
  LET mem_util == Round(100 * usage_data.memory_usage,
                        Max2(1, usage_data.total_memory))
      tpu_util == Round(usage_data.duty_cycle_pct, 10000)
      d1 == SET_GPUINFO_DYNAMIC(di, "gpu_util_rate", tpu_util)
      d2 == SET_GPUINFO_DYNAMIC(d1, "mem_util_rate", mem_util)
      d3 == SET_GPUINFO_DYNAMIC(d2, "total_memory", usage_data.total_memory)
      d4 == SET_GPUINFO_DYNAMIC(d3, "used_memory", usage_data.memory_usage)
  IN SET_GPUINFO_DYNAMIC(d4, "free_memory",
                         usage_data.total_memory - usage_data.memory_usage)

\* The structure assignment of lines 188 and 317 is not atomic: the members
\* are copied in the order they are laid out (extract_gpuinfo_tpu.h, lines
\* 11-17), here in two parts.
FirstMembers == {"name", "device_id", "memory_usage"}
CopyMembers(to, from, members) ==
  [f \in DOMAIN to |-> IF f \in members THEN from[f] ELSE to[f]]

TpuReadFrame ==
  /\ UNCHANGED <<tpu_chip_count, thread_should_exit, tpu_query_thread,
                 m_destroyed, popen_command, gpu_infos,
                 latest_chips_usage_data, tpu_heap, tpu_double_free, workers,
                 tv, tpu_devices>>
  /\ TpuFrame

\* Line 314, for one of the devices get_device_handles appended: one of the
\* first listed of them.
TpuRefreshStart(listed) ==
  \E k \in DOMAIN tpu_devices \cap 1..listed :
    /\ tpu_caller = "idle"
    /\ gpu_infos = "block"
    /\ IF tpu_devices[k] >= tpu_chip_count
       THEN /\ tpu_call' = [TpuCall("refresh_dynamic_info", "skipped", FALSE)
                             EXCEPT !.device = tpu_devices[k]]
            /\ UNCHANGED <<tpu_caller, tpu_refresh>>
       ELSE /\ tpu_caller' = "refresh_lock"
            /\ tpu_refresh' = [NoRefresh EXCEPT !.device_id = tpu_devices[k]]
            /\ UNCHANGED tpu_call
    /\ UNCHANGED <<m, tpu_out_of_bounds, tpu_dynamic_info>>
    /\ TpuReadFrame

\* Line 316.
TpuRefreshLock ==
  /\ tpu_caller = "refresh_lock"
  /\ MutexLock(MainThread)
  /\ tpu_caller' = "refresh_copy"
  /\ UNCHANGED <<tpu_out_of_bounds, tpu_call, tpu_refresh, tpu_dynamic_info>>
  /\ TpuReadFrame

\* Line 317, the first members of the record.
TpuRefreshCopy ==
  /\ tpu_caller = "refresh_copy"
  /\ LET slot == tpu_refresh.device_id + 1
     IN IF slot \in DOMAIN latest_chips_usage_data
        THEN /\ tpu_refresh' =
                  [tpu_refresh EXCEPT !.usage_data =
                     CopyMembers(@, latest_chips_usage_data[slot], FirstMembers)]
             /\ UNCHANGED tpu_out_of_bounds
        ELSE /\ tpu_out_of_bounds' = TRUE
             /\ UNCHANGED tpu_refresh
  /\ tpu_caller' = "refresh_copy_rest"
  /\ UNCHANGED <<m, tpu_call, tpu_dynamic_info>>
  /\ TpuReadFrame

\* Lines 317-328: the other members, the unlock, the five fields.
TpuRefreshRest ==
  /\ tpu_caller = "refresh_copy_rest"
  /\ LET slot == tpu_refresh.device_id + 1
         usage_data ==
           IF slot \in DOMAIN latest_chips_usage_data
           THEN CopyMembers(tpu_refresh.usage_data, latest_chips_usage_data[slot],
                            DOMAIN tpu_refresh.usage_data \ FirstMembers)
           ELSE tpu_refresh.usage_data
     IN /\ tpu_dynamic_info' =
             [tpu_dynamic_info EXCEPT ![slot] = DynamicInfoOf(@, usage_data)]
        /\ tpu_out_of_bounds' =
             (tpu_out_of_bounds \/ slot \notin DOMAIN latest_chips_usage_data)
  /\ MutexUnlock(MainThread)
  /\ tpu_refresh' = NoRefresh
  /\ tpu_caller' = "idle"
  /\ tpu_call' = [TpuCall("refresh_dynamic_info", "void", FALSE)
                  EXCEPT !.device = tpu_refresh.device_id]
  /\ TpuReadFrame

TpuRefreshDynamicInfo(listed) ==
  \/ TpuRefreshStart(listed)
  \/ TpuRefreshLock
  \/ TpuRefreshCopy
  \/ TpuRefreshRest

\* The static initial values, lines 67-68, 81-83, 91, 107.
TpuStatic ==
  /\ tpu_chip_count = -1
  /\ thread_should_exit = FALSE
  /\ tpu_query_thread = 0
  /\ m = 0
  /\ m_destroyed = FALSE
  /\ popen_command = "NULL"
  /\ gpu_infos = "NULL"
  /\ latest_chips_usage_data = <<>>
  /\ tpu_heap = [p \in {"gpu_infos", "popen_command", "latest_chips_usage_data"} |-> 0]
  /\ tpu_double_free = FALSE
  /\ tpu_out_of_bounds = FALSE
  /\ workers = [w \in Threads |-> NoThread]
  /\ tpu_caller = "idle"
  /\ tpu_devices = <<>>
  /\ tpu_call = TpuCall("none", "void", FALSE)
  /\ tpu_refresh = NoRefresh
  /\ tpu_dynamic_info = <<>>

\* The TPU backend never initialised.
TpuIdle == TpuStatic /\ tv = [tv_sec |-> 0, tv_usec |-> 0]

\* The backend's life as nvtop drives it: init, then the device handles,
\* then shutdown, with the worker thread running in between.  The NVML
\* backend stays as loaded.
InitTpu ==
  /\ TpuStatic
  /\ tv \in [tv_sec : {0}, tv_usec : ClockUsec]
  /\ NvLibReady /\ NvDynInit /\ NvProcInit(1, {FALSE})
NextTpu ==
  \/ tpu_call.op = "none" /\ TpuInit
  \/ tpu_call.op = "init" /\ tpu_call.ret = "true" /\ TpuGetDeviceHandles
  \/ tpu_call.op \in {"init", "get_device_handles"} /\ TpuShutdown
  \/ TpuShutdownJoin
  \/ \E w \in Threads : Worker(w)
SpecTpu == InitTpu /\ [][NextTpu]_vars
\* Every thread created keeps being scheduled.
SpecTpuFair == SpecTpu /\ \A w \in Threads : WF_vars(Worker(w))

\* The calls in any order after the one gpuinfo_tpu_init: device handles
\* asked for again and again, shutdown at any time.  The subprocess prints
\* well-formed lines of chip 0 only.
CallsLines == {LineChip0}
NextTpuCalls ==
  \/ tpu_call.op = "none" /\ TpuInit
  \/ tpu_call.op # "none" /\ TpuGetDeviceHandles
  \/ tpu_call.op # "none" /\ TpuShutdown
  \/ TpuShutdownJoin
  \/ \E w \in Threads : WorkerOn(w, CallsLines)
SpecTpuCalls == InitTpu /\ [][NextTpuCalls]_vars

\* The backend's life with the dynamic information of its first
\* MaxRefreshed devices refreshed at any time between get_device_handles and
\* shutdown.  The subprocess prints well-formed lines, so that a slot is
\* written with differing records.
NextTpuRead ==
  \/ tpu_call.op = "none" /\ TpuInit
  \/ tpu_call.op = "init" /\ tpu_call.ret = "true" /\ TpuGetDeviceHandles
  \/ tpu_call.op \notin {"none", "shutdown"} /\ TpuShutdown
  \/ TpuShutdownJoin
  \/ TpuRefreshDynamicInfo(MaxRefreshed)
  \/ \E w \in Threads : WorkerOn(w, WellFormedLines)
SpecTpuRead == InitTpu /\ [][NextTpuRead]_vars

\* The same life with a subprocess that prints the line of chip 0, the line
\* of line 97 or nothing: cycles that publish, cycles that fail (and the
\* reset after two of them) and the backend disabling itself, with the
\* refreshes and the shutdown of the caller at any time.
SessionLines == {LineChip0, LineSentinel}
NextTpuSession ==
  \/ tpu_call.op = "none" /\ TpuInit
  \/ tpu_call.op = "init" /\ tpu_call.ret = "true" /\ TpuGetDeviceHandles
  \/ tpu_call.op \notin {"none", "shutdown"} /\ TpuShutdown
  \/ TpuShutdownJoin
  \/ TpuRefreshDynamicInfo(MaxRefreshed)
  \/ \E w \in Threads : WorkerOn(w, SessionLines)
SpecTpuSession == InitTpu /\ [][NextTpuSession]_vars

(***************************************************************************)
(* Specifications of the NVML process poll                                 *)
(***************************************************************************)
\* The library's life: loads, enumerations, error queries and shutdowns in
\* any order, with every library of Libraries.
InitLib == TpuIdle /\ NvLibInit /\ NvDynInit /\ NvProcInit(0, {FALSE})
NextLib ==
  \/ NvInit
  \/ NvShutdown
  \/ NvLastErrorString
  \/ NvGetDeviceHandles(SelectAll, {0, 1}, EmptyList)
SpecLib == InitLib /\ [][NextLib]_vars

\* Enumeration: the complete library, loaded, asked for its devices with
\* every mask of MaxDevices + 1 bits (and the all-ones mask), every device
\* count up to MaxDevices and every pattern of unresolved indices, until it
\* is shut down.
Masks == (-1)..(2 ^ (MaxDevices + 1) - 1)
InitHandles == TpuIdle /\ NvLibReady /\ NvDynInit /\ NvProcInit(1, {FALSE})
NextHandles ==
  \/ NvShutdown
  \/ NvGetDeviceHandles(Masks, 0..MaxDevices, SuppliedLists)
SpecHandles == InitHandles /\ [][NextHandles]_vars

\* Dynamic information: one device refreshed again and again.
InitDyn == TpuIdle /\ NvLibReady /\ NvDynInit /\ NvProcInit(1, {TRUE})
NextDyn == NvRefreshDynamicInfo
SpecDyn == InitDyn /\ [][NextDyn]_vars

\* Correlation of utilization samples: one device, short lists, any samples.
InitUtil == TpuIdle /\ NvLibReady /\ NvDynInit /\ NvProcInit(1, BOOLEAN)
NextUtil ==
  \/ \E d \in Devices : NvStartPoll(d, UtilLists, UtilLists)
  \/ NvQueryGraphical
  \/ NvQueryCompute
  \/ NvFill
  \/ NvProbe
  \/ NvRetry
  \/ NvPublishWatermark
SpecUtil == InitUtil /\ [][NextUtil]_vars

\* Buffer growth: one device polled again and again (so that a poll starts
\* from every capacity an earlier poll can leave), lists of up to MaxCount
\* processes per category, the optional entry point unresolved (so that
\* gpuinfo_nvidia_get_process_utilization returns at line 623).
InitGrow == TpuIdle /\ NvLibReady /\ NvDynInit /\ NvProcInit(1, {FALSE})
NextGrow ==
  \/ \E d \in Devices : NvStartPoll(d, GrowGraphics, GrowCompute)
  \/ NvQueryGraphical
  \/ NvQueryCompute
  \/ NvFill
SpecGrow == InitGrow /\ [][NextGrow]_vars
\* The caller's thread keeps running: a growth loop that can take its next
\* pass does take it.
SpecGrowFair ==
  SpecGrow /\ WF_vars(NvQueryGraphical) /\ WF_vars(NvQueryCompute)

\* Polls over all devices: each poll lists no graphics process, one or
\* MaxCount, and no compute process or MaxCount, so that the shared buffer
\* and each device's entries grow in one poll and are reused by the polls
\* that follow, of the same device and of the others, with shorter lists too.
PollGraphics == {CountedList(n, 100) : n \in {0, 1, MaxCount}}
PollCompute == {CountedList(n, 200) : n \in {0, MaxCount}}
InitPolls == TpuIdle /\ NvLibReady /\ NvDynInit /\ NvProcInit(MaxDevices, {FALSE})
NextPolls ==
  \/ \E d \in Devices : NvStartPoll(d, PollGraphics, PollCompute)
  \/ NvQueryGraphical
  \/ NvQueryCompute
  \/ NvFill
SpecPolls == InitPolls /\ [][NextPolls]_vars

(***************************************************************************)
(* Claims                                                                  *)
(***************************************************************************)
SetMax(S) == CHOOSE x \in S : \A y \in S : y <= x

\* The claims' own reading of "accepted": the sample's PID is in the freshly
\* discovered list, no utilization exceeds 100, and the timestamp is newer
\* than the watermark the request was issued with.
ClaimAccepts(s, entries, watermark) ==
  /\ \E j \in 1..Len(entries) : entries[j].pid = s.pid
  /\ s.smUtil <= 100
  /\ s.encUtil <= 100
  /\ s.decUtil <= 100
  /\ s.timeStamp > watermark

UsageFlags ==
  {"gpuinfo_process_gpu_usage_valid", "gpuinfo_process_encode_usage_valid",
   "gpuinfo_process_decode_usage_valid"}

\* C1: on every step of every poll sequence the device's watermark becomes
\* the maximum of its previous value and the timestamps of the samples
\* accepted in the poll that ends with that step (so it never decreases, and
\* a rejected sample never contributes its timestamp).
C1_WatermarkStep ==
  \A d \in Devices :
    last_utilization_timestamp'[d] =
      SetMax({last_utilization_timestamp[d]} \cup
             (IF nv_pc = "correlated" /\ nv_dev = d
              THEN {samples[i].timeStamp :
                      i \in {k \in 1..Len(samples) :
                               ClaimAccepts(samples[k], processes[d],
                                            last_utilization_timestamp[d])}}
              ELSE {}))
C1_Watermark == [][C1_WatermarkStep]_vars

\* A poll on a watermark of 1 whose samples hold a stale one (timestamp 1)
\* and a newer one that is rejected (timestamp 2): the watermark stays 1.
C1_Witness ==
  /\ nv_pc = "correlated"
  /\ last_utilization_timestamp[nv_dev] = 1
  /\ newest_timestamp_candidate = 1
  /\ \E i \in 1..Len(samples) : samples[i].timeStamp = 1
  /\ \E i \in 1..Len(samples) :
       /\ samples[i].timeStamp = 2
       /\ ~ClaimAccepts(samples[i], processes[nv_dev], 1)

\* C2: after the correlation loop, an entry has utilization fields marked
\* valid only if some returned sample carries its PID, has no utilization
\* above 100 and a timestamp newer than the watermark passed to the vendor,
\* and then its three fields are that sample's values; and for every such
\* sample the first entry with its PID is marked valid and, unless a later
\* acceptable sample for the same PID follows, holds the sample's values.
C2_Correlation ==
  nv_pc = "correlated" =>
    LET entries == processes[nv_dev]
        wm == last_utilization_timestamp[nv_dev]
        ok(i) == ClaimAccepts(samples[i], entries, wm)
        holds(e, s) == /\ e.gpu_usage = s.smUtil
                       /\ e.encode_usage = s.encUtil
                       /\ e.decode_usage = s.decUtil
    IN /\ \A j \in 1..Len(entries) :
            (entries[j].valid \cap UsageFlags # {}) =>
              \E i \in 1..Len(samples) :
                /\ ok(i)
                /\ samples[i].pid = entries[j].pid
                /\ holds(entries[j], samples[i])
       /\ \A i \in 1..Len(samples) :
            ok(i) =>
              LET j == CHOOSE k \in 1..Len(entries) :
                         /\ entries[k].pid = samples[i].pid
                         /\ \A k2 \in 1..(k - 1) : entries[k2].pid # samples[i].pid
              IN /\ UsageFlags \subseteq entries[j].valid
                 /\ (\A i2 \in (i + 1)..Len(samples) :
                       ~(ok(i2) /\ samples[i2].pid = samples[i].pid))
                      => holds(entries[j], samples[i])

\* Two listed processes, a watermark of 1, an accepted sample for the second
\* one and a rejected sample for the first.
C2_Witness ==
  /\ nv_pc = "correlated"
  /\ Len(processes[nv_dev]) = 2
  /\ processes[nv_dev][1].pid # processes[nv_dev][2].pid
  /\ last_utilization_timestamp[nv_dev] = 1
  /\ UsageFlags \subseteq processes[nv_dev][2].valid
  /\ processes[nv_dev][2].gpu_usage = 100
  /\ processes[nv_dev][1].valid \cap UsageFlags = {}
  /\ \E i \in 1..Len(samples) : samples[i].pid = processes[nv_dev][1].pid

\* C3: when populate_tpu_data has returned, the cycle is scored as success
\* only if the number of lines parsed into five fields equals the device
\* count; a cycle in which a line read was malformed, or in which fewer
\* lines than devices were read, is scored as failure; a cycle with one
\* well-formed line per device is scored as success.
C3_Scoring ==
  \A w \in Threads :
    workers[w].pc = "scored" =>
      LET wk == workers[w]
      IN /\ wk.success => wk.parsed = tpu_chip_count
         /\ wk.malformed > 0 => ~wk.success
         /\ (~wk.sentinel /\ wk.parsed + wk.malformed < tpu_chip_count) => ~wk.success
         /\ (tpu_chip_count > 0 /\ wk.malformed = 0
               /\ wk.parsed = tpu_chip_count) => wk.success

\* C4: the handling of a cycle ends with a soft reset exactly when the cycle
\* and the one before it were both scored as failures; the reset leaves
\* every slot with memory_usage 0 and duty_cycle_pct 0 and its name,
\* device_id and total_memory as they were; a cycle scored as success sets
\* the failure counter to 0.
C4_SoftResetStep ==
  \A w \in Threads :
    LET a == workers[w]
        b == workers'[w]
        second_failure == ~a.success /\ a.prev_failed
    IN /\ (a.pc = "scored" /\ b.pc = "sleep") =>
            ~second_failure /\ latest_chips_usage_data' = latest_chips_usage_data
       /\ (a.pc = "scored" /\ b # a /\ second_failure) => b.pc = "reset_lock"
       /\ (a.pc = "scored" /\ b # a /\ a.success) => b.fails_in_a_row = 0
       /\ (a.pc = "reset_lock" /\ b.pc # a.pc) => b.pc = "reset"
       /\ (a.pc = "reset" /\ b.pc # a.pc) =>
            /\ second_failure
            /\ b.pc = "sleep"
            /\ Len(latest_chips_usage_data') = Len(latest_chips_usage_data)
            /\ \A i \in 1..Len(latest_chips_usage_data) :
                 LET old == latest_chips_usage_data[i]
                     new == latest_chips_usage_data'[i]
                 IN /\ new.memory_usage = 0
                    /\ new.duty_cycle_pct = 0
                    /\ new.name = old.name
                    /\ new.device_id = old.device_id
                    /\ new.total_memory = old.total_memory
C4_SoftReset == [][C4_SoftResetStep]_vars

\* After a second failed cycle in a row: a slot that a parsed line had filled
\* keeps its name and total_memory and has usage and duty cycle 0.
C4_Witness ==
  \E w \in Threads :
    /\ workers[w].pc = "sleep"
    /\ workers[w].fails_in_a_row = 2
    /\ workers[w].prev_failed
    /\ Len(latest_chips_usage_data) = 2
    /\ latest_chips_usage_data[1].total_memory = 1000
    /\ latest_chips_usage_data[1].name = <<"c", "h", "i", "p", "1">>
    /\ latest_chips_usage_data[1].memory_usage = 0
    /\ latest_chips_usage_data[1].duty_cycle_pct = 0
    /\ latest_chips_usage_data[2].total_memory = 1000

\* C5: the step that reads the sentinel as first line sets tpu_chip_count to
\* 0 and raises the flag; from then on the worker writes no slot and starts
\* no poll cycle, tpu_chip_count is 0 for as long as the thread exists (it
\* is joined by shutdown), and the thread function returns.
C5_SentinelStep ==
  \A w \in Threads :
    /\ (~workers[w].sentinel /\ workers'[w].sentinel) =>
         /\ workers[w].parsed = 0
         /\ tpu_chip_count' = 0
         /\ thread_should_exit'
         /\ latest_chips_usage_data' = latest_chips_usage_data
    /\ (workers[w].sentinel /\ workers'[w] # workers[w]) =>
         /\ latest_chips_usage_data' = latest_chips_usage_data
         /\ workers'[w].pc \notin {"read", "lock", "store", "reset_lock", "reset"}
         /\ workers'[w].pc # "none" => tpu_chip_count' = 0
C5_Sentinel ==
  /\ [][C5_SentinelStep]_vars
  /\ [](\A w \in Threads : workers[w].sentinel => thread_should_exit)
  /\ \A w \in Threads :
       workers[w].sentinel ~> (workers[w].pc \in {"done", "none"})

\* The worker that read the sentinel has returned; the table still holds
\* what an earlier cycle had published.
C5_Witness ==
  \E w \in Threads :
    /\ workers[w].sentinel
    /\ workers[w].pc = "done"
    /\ tpu_chip_count = 0
    /\ thread_should_exit
    /\ tpu_call.op = "get_device_handles"
    /\ \E i \in 1..Len(latest_chips_usage_data) :
         latest_chips_usage_data[i].total_memory = 1000

\* C6: when a gpuinfo_tpu_shutdown that found the worker running has
\* returned, the worker has terminated, no block was freed twice, and no
\* block of the backend (gpu_infos, popen_command, latest_chips_usage_data)
\* remains allocated.
C6_ShutdownReleases ==
  (tpu_call.op = "shutdown" /\ tpu_call.joined) =>
    /\ \A w \in Threads : workers[w].pc = "none"
    /\ ~tpu_double_free
    /\ \A p \in {"gpu_infos", "popen_command", "latest_chips_usage_data"} :
         tpu_heap[p] = 0

\* C7: both growth loops terminate (the poll reaches line 714, or exits on a
\* failed reallocation) for every pair of true counts and every starting
\* capacity; the capacity then covers the entries retrieved, and when the
\* vendor answered both categories as the claim assumes (insufficient-size
\* exactly when too small, success otherwise) it covers both true counts.
C7_GrowthLoops ==
  /\ (nv_pc = "retry_query_graphical") ~> (nv_pc \in {"fill", "exit"})
  /\ [](nv_pc = "fill" =>
          /\ array_size >= graphical_count + compute_count
          /\ (graphical_ret = NVML_SUCCESS /\ compute_ret = NVML_SUCCESS) =>
               array_size >= Len(true_graphics) + Len(true_compute))

\* Both loops have grown the buffer: three graphics and three compute
\* processes retrieved.
C7_Witness ==
  /\ nv_pc = "fill"
  /\ graphical_ret = NVML_SUCCESS
  /\ compute_ret = NVML_SUCCESS
  /\ Len(true_graphics) = MaxCount
  /\ Len(true_compute) = MaxCount
  /\ graphical_count = MaxCount
  /\ compute_count = MaxCount
  /\ array_size >= 2 * MaxCount

\* C8: a gpuinfo_nvidia_init that opened the library and found a required
\* entry point under none of its names returns false, closes the handle once
\* and leaves it NULL; while the handle is NULL, get_device_handles, shutdown
\* and last_error_string invoke no entry point (and leave it NULL); and with
\* only the optional symbol absent init fails only if nvmlInit itself
\* returned an error.
C8_InitStep ==
  LET unresolvable ==
        \E i \in 1..Len(RequiredEntryPoints) :
          \A k \in 1..Len(RequiredEntryPoints[i].names) :
            RequiredEntryPoints[i].names[k] \notin exports
      init_step == nv_call'.op = "init" /\ nv_call'.dlopened = 1
  IN /\ (init_step /\ unresolvable) =>
          /\ nv_call'.ret = "false"
          /\ nv_call'.dlclosed = 1
          /\ dl_refcount' = dl_refcount
          /\ libnvidia_ml_handle' = 0
          /\ nv_call'.invoked = {}
     /\ (libnvidia_ml_handle = 0 /\
         nv_call'.op \in {"get_device_handles", "shutdown", "last_error_string"}) =>
          /\ nv_call'.invoked = {}
          /\ nv_call'.dlclosed = 0
          /\ libnvidia_ml_handle' = 0
     /\ (init_step /\ exports = AllSymbols \ {"nvmlDeviceGetProcessUtilization"}) =>
          \/ nv_call'.ret = "true"
          \/ nv_call'.invoked # {} /\ last_nvml_return_status' # NVML_SUCCESS
C8_InitFailure == [][C8_InitStep]_vars

\* An init that had resolved nvmlDeviceGetCount failed on nvmlErrorString;
\* the get_device_handles that followed returned false on the NULL handle.
C8_Witness ==
  /\ "nvmlErrorString" \notin exports
  /\ nvml_sym["nvmlDeviceGetCount"] # "NULL"
  /\ nvml_sym["nvmlErrorString"] = "NULL"
  /\ libnvidia_ml_handle = 0
  /\ dl_refcount = 0
  /\ nv_call.op = "get_device_handles"
  /\ nv_call.ret = "false"

\* The vendor queries that feed each DynamicInfo field, read off lines
\* 498-614 field by field.
C9_Feed ==
  [gpu_clock_speed |-> {"ClockInfo_GRAPHICS", "ClockInfo_SM"},
   gpu_clock_speed_max |-> {"MaxClockInfo_GPU"},
   mem_clock_speed |-> {"ClockInfo_MEM"},
   mem_clock_speed_max |-> {"MaxClockInfo_MEM"},
   gpu_util_rate |-> {"UtilizationRates"},
   mem_util_rate |-> {"MemoryInfo"},
   encoder_rate |-> {"EncoderUtilization"},
   decoder_rate |-> {"DecoderUtilization"},
   total_memory |-> {"MemoryInfo"},
   free_memory |-> {"MemoryInfo"},
   used_memory |-> {"MemoryInfo"},
   pcie_link_gen |-> {"CurrPcieLinkGeneration"},
   pcie_link_width |-> {"CurrPcieLinkWidth"},
   pcie_rx |-> {"PcieThroughput_RX"},
   pcie_tx |-> {"PcieThroughput_TX"},
   fan_speed |-> {"FanSpeed"},
   gpu_temp |-> {"Temperature"},
   power_draw |-> {"PowerUsage"},
   power_draw_max |-> {"EnforcedPowerLimit"}]

\* C9: when a call of gpuinfo_nvidia_refresh_dynamic_info returns, each
\* validity flag is set if and only if a query feeding its field returned
\* success during that call; a flag that was set before the call and whose
\* queries all failed in it is cleared.
C9_FlagsStep ==
  \A f \in DOMAIN C9_Feed :
    LET flag == "gpuinfo_" \o f \o "_valid"
        fed == \E q \in C9_Feed[f] : q \notin nvml_failed'
    IN /\ (flag \in dynamic_info'.valid) <=> fed
       /\ (flag \in dynamic_info.valid /\ ~fed) => flag \notin dynamic_info'.valid
C9_Flags == [][C9_FlagsStep]_vars

\* The fan-speed query failed in the last call after it had succeeded in an
\* earlier one (the record still holds the value then written): its flag is
\* clear, the temperature's is set.
C9_Witness ==
  /\ "FanSpeed" \in nvml_failed
  /\ dynamic_info.fan_speed = DirectValue
  /\ "gpuinfo_fan_speed_valid" \notin dynamic_info.valid
  /\ "gpuinfo_gpu_temp_valid" \in dynamic_info.valid

\* C10: after a call, with g and s the readings of the graphics and SM
\* domains: both succeeded - the current clock is valid and the larger of g
\* and s; one succeeded - it is valid and that reading; none - it is invalid.
\* The maximum clock was asked of the domain whose reading is the reported
\* current clock.
C10_Clock ==
  LET cur_valid == "gpuinfo_gpu_clock_speed_valid" \in dynamic_info.valid
      cur == dynamic_info.gpu_clock_speed
      g_ok == "ClockInfo_GRAPHICS" \notin nvml_failed /\ graphics_clock_valid
      s_ok == "ClockInfo_SM" \notin nvml_failed /\ sm_clock_valid
  IN /\ (g_ok /\ s_ok) =>
          cur_valid /\ cur = (IF graphics_clock > sm_clock THEN graphics_clock ELSE sm_clock)
     /\ (g_ok /\ ~s_ok) => cur_valid /\ cur = graphics_clock
     /\ (~g_ok /\ s_ok) => cur_valid /\ cur = sm_clock
     /\ (~g_ok /\ ~s_ok) => ~cur_valid
     /\ cur_valid =>
          /\ getMaxClockFrom \in {NVML_CLOCK_GRAPHICS, NVML_CLOCK_SM}
          /\ getMaxClockFrom = NVML_CLOCK_GRAPHICS => g_ok /\ cur = graphics_clock
          /\ getMaxClockFrom = NVML_CLOCK_SM => s_ok /\ cur = sm_clock
          /\ "gpuinfo_gpu_clock_speed_max_valid" \in dynamic_info.valid =>
               dynamic_info.gpu_clock_speed_max =
                 (IF getMaxClockFrom = NVML_CLOCK_SM THEN 2100 ELSE 2000)

\* The example of the claim: graphics 1000, SM 1200, current clock 1200, and
\* the maximum clock is the SM domain's.
C10_Witness ==
  /\ graphics_clock_valid /\ graphics_clock = 1000
  /\ sm_clock_valid /\ sm_clock = 1200
  /\ dynamic_info.gpu_clock_speed = 1200
  /\ getMaxClockFrom = NVML_CLOCK_SM
  /\ "gpuinfo_gpu_clock_speed_max_valid" \in dynamic_info.valid
  /\ dynamic_info.gpu_clock_speed_max = 2100

\* C11: when get_device_handles has returned true for a vendor count n, a
\* mask and a set of unresolved indices, the mask it leaves is the given one
\* shifted right by n, count is the number of indices below n whose bit was
\* set and whose handle resolved, and the device list is the supplied one
\* followed by exactly those indices in increasing order (so an unresolved
\* index ends nothing).
C11_Chosen ==
  {i \in 0..(nv_args.num_devices - 1) :
     /\ (nv_args.mask \div (2 ^ i)) % 2 = 1
     /\ i \notin nv_args.unresolved}
C11_Enumeration ==
  (nv_call.op = "get_device_handles" /\ nv_call.ret = "true") =>
    LET n == nv_args.num_devices
        given == Len(nv_args.supplied)
    IN /\ nv_mask = nv_args.mask \div (2 ^ n)
       /\ nv_count = Cardinality(C11_Chosen)
       /\ Len(nv_devices) = given + nv_count
       /\ \A k \in 1..given : nv_devices[k] = nv_args.supplied[k]
       /\ {nv_devices[k] : k \in (given + 1)..Len(nv_devices)} = C11_Chosen
       /\ \A k \in (given + 1)..(Len(nv_devices) - 1) :
            nv_devices[k] < nv_devices[k + 1]

\* A list that already holds a device and the largest vendor count: index 0
\* is selected and fails to resolve, a later index is still appended, and
\* the mask bit beyond the last index is what is left of the mask.
C11_Witness ==
  /\ nv_call.op = "get_device_handles"
  /\ nv_call.ret = "true"
  /\ nv_args.num_devices = MaxDevices
  /\ nv_args.supplied # <<>>
  /\ nv_args.mask % 2 = 1
  /\ 0 \in nv_args.unresolved
  /\ nv_count >= 1
  /\ nv_mask = 1

\* C12: when the count query has succeeded with zero devices,
\* get_device_handles has returned true with count 0 and the device list as
\* supplied, whatever calloc answered to the zero-sized request, and nothing
\* was stored outside the block it allocated.
C12_ZeroDevices ==
  (/\ nv_call.op = "get_device_handles"
   /\ nv_args.count_ret = NVML_SUCCESS
   /\ nv_args.num_devices = 0) =>
    /\ nv_call.ret = "true"
    /\ nv_count = 0
    /\ nv_devices = nv_args.supplied
    /\ ~heap_overrun

\* C13: at any time at most one worker thread is running, and once
\* gpuinfo_tpu_shutdown has returned every thread that was created has been
\* joined.
C13_OneWorker ==
  /\ Cardinality({w \in Threads : workers[w].pc \notin {"none", "done"}}) <= 1
  /\ (tpu_call.op = "shutdown" /\ tpu_caller = "idle") =>
       \A w \in Threads : workers[w].pc = "none"

\* C14: a thread is at a read or a write of the usage table only while it
\* holds the mutex, the worker holds it nowhere else (not while it runs or
\* reads the subprocess) and the reader only while it copies; and the record
\* a refresh has copied is the slot as it stands when the copy ends, all
\* members from the same write.
C14_Holding ==
  /\ \A w \in Threads :
       (workers[w].pc \in {"store", "reset"}) <=> (m = w)
  /\ (tpu_caller \in {"refresh_copy", "refresh_copy_rest"}) <=> (m = MainThread)
C14_CopyStep ==
  (tpu_caller = "refresh_copy_rest" /\ tpu_caller' = "idle") =>
    LET slot == tpu_refresh.device_id + 1
        record == latest_chips_usage_data[slot]
        written == tpu_dynamic_info'[slot]
    IN /\ latest_chips_usage_data' = latest_chips_usage_data
       /\ written.used_memory = record.memory_usage
       /\ written.total_memory = record.total_memory
       /\ written.free_memory = record.total_memory - record.memory_usage
       /\ 10000 * written.gpu_util_rate - 5000 <= record.duty_cycle_pct
       /\ record.duty_cycle_pct < 10000 * written.gpu_util_rate + 5000
C14_Mutex == [](C14_Holding) /\ [][C14_CopyStep]_vars

\* The reader has copied the first members of a slot and still holds the
\* mutex while the worker waits at line 187 with a different record for a
\* slot.
C14_Witness ==
  /\ tpu_caller = "refresh_copy_rest"
  /\ m = MainThread
  /\ \E w \in Threads :
       /\ workers[w].pc = "lock"
       /\ workers[w].id = tpu_refresh.device_id
       /\ workers[w].usage_data.memory_usage # tpu_refresh.usage_data.memory_usage

\* C15: a last_error_string asked right after an init that returned false
\* gives the loader's text when the library could not be opened, the
\* library's own string for the status when nvmlInit was called and returned
\* an error, and in no case the "has not been initialized" text.
C15_ExplainStep ==
  (/\ nv_call.op = "init"
   /\ nv_call.ret = "false"
   /\ nv_call'.op = "last_error_string") =>
    /\ nv_call.dlopened = 0 => nv_call'.ret = "dlerror"
    /\ nv_call.invoked # {} =>
         nv_call'.ret = "nvmlErrorString(last_nvml_return_status)"
    /\ nv_call'.ret # "didnt_call_gpuinfo_init"
C15_Explains == [][C15_ExplainStep]_vars

\* C16: after a refresh whose memory query succeeded with a positive total,
\* total, used, free and the percentage are valid and the percentage is the
\* integer quotient of used * 100 by total (50 for 5000 of 10000); after a
\* refresh whose memory query failed none of the four is valid and the four
\* values are the ones the record held before.
C16_MemoryFields == {"total_memory", "used_memory", "free_memory", "mem_util_rate"}
C16_MemoryStep ==
  LET now == dynamic_info'
  IN /\ ("MemoryInfo" \notin nvml_failed' /\ now.total_memory > 0) =>
          /\ \A f \in C16_MemoryFields : ("gpuinfo_" \o f \o "_valid") \in now.valid
          /\ now.mem_util_rate * now.total_memory <= now.used_memory * 100
          /\ now.used_memory * 100 < (now.mem_util_rate + 1) * now.total_memory
          /\ (now.used_memory = 5000 /\ now.total_memory = 10000) =>
               now.mem_util_rate = 50
     /\ "MemoryInfo" \in nvml_failed' =>
          \A f \in C16_MemoryFields :
            /\ ("gpuinfo_" \o f \o "_valid") \notin now.valid
            /\ now[f] = dynamic_info[f]
C16_MemoryUtil == [][C16_MemoryStep]_vars

\* A refresh has reported 5000 of 10000 as 50 percent.
C16_Witness ==
  /\ "MemoryInfo" \notin nvml_failed
  /\ "gpuinfo_mem_util_rate_valid" \in dynamic_info.valid
  /\ dynamic_info.used_memory = 5000
  /\ dynamic_info.total_memory = 10000
  /\ dynamic_info.mem_util_rate = 50

\* C17: the step that rebuilds a device's entries leaves every entry without
\* a valid utilization field and with utilization values of zero, whatever
\* the entries held before; the only step that marks a utilization field
\* valid is the correlation of the same poll, and only for an entry whose PID
\* has a sample accepted there; no other step changes an entry; and with the
\* optional entry point unresolved no entry ever has a valid utilization
\* field and no sampling call is made.
C17_Clean(entry) ==
  /\ entry.valid \cap UsageFlags = {}
  /\ entry.gpu_usage = 0
  /\ entry.encode_usage = 0
  /\ entry.decode_usage = 0
C17_Step ==
  LET d == nv_dev
  IN /\ nv_pc = "fill" =>
          \A i \in 1..Len(processes'[d]) : C17_Clean(processes'[d][i])
     /\ (nv_pc = "retry" /\ nv_pc' = "correlated") =>
          \A i \in 1..Len(processes'[d]) :
            \/ C17_Clean(processes'[d][i])
            \/ \E k \in 1..Len(samples') :
                 /\ samples'[k].pid = processes'[d][i].pid
                 /\ ClaimAccepts(samples'[k], processes[d],
                                 last_utilization_timestamp[d])
     /\ ~(nv_pc = "fill" \/ (nv_pc = "retry" /\ nv_pc' = "correlated")) =>
          processes' = processes
     /\ \A e \in Devices \ {d} : processes'[e] = processes[e]
C17_Unresolved ==
  ~nvmlDeviceGetProcessUtilization =>
    /\ sampling_calls = 0
    /\ \A d \in Devices : \A i \in 1..Len(processes[d]) :
         processes[d][i].valid \cap UsageFlags = {}
C17_Rebuilt == [][C17_Step]_vars /\ [](C17_Unresolved)

\* A device whose watermark shows that an earlier poll accepted a sample has
\* been polled again, lists a process, and no entry of it has a valid
\* utilization field.
C17_Witness ==
  /\ nv_pc = "idle"
  /\ nvmlDeviceGetProcessUtilization
  /\ last_utilization_timestamp[nv_dev] > 0
  /\ processes_count[nv_dev] >= 1
  /\ Len(processes[nv_dev]) = processes_count[nv_dev]
  /\ \A i \in 1..Len(processes[nv_dev]) : C17_Clean(processes[nv_dev][i])

\* C18: a poll makes at most two sampling calls, the second only after a
\* first that asked for a buffer and with a buffer of the size the first
\* reported; a poll that ends on the answer of the probe, on a failed retry
\* or without a process leaves the watermark and every entry's utilization
\* fields and flags as they were; and no sample buffer is live once the poll
\* has returned.
C18_Calls ==
  /\ sampling_calls <= 2
  /\ nv_pc = "probe" => sampling_calls = 0
  /\ nv_pc = "retry" => sampling_calls = 1 /\ samples_live = 1
  /\ nv_pc = "correlated" =>
       sampling_calls = 2 /\ samples_live = 1 /\ Len(samples) <= MaxSamples
  /\ nv_pc = "idle" => samples_live = 0
C18_ReturnStep ==
  /\ (nv_pc \in {"probe", "retry"} /\ nv_pc' = "idle") =>
       /\ last_utilization_timestamp' = last_utilization_timestamp
       /\ processes' = processes
  /\ (nv_pc = "retry" /\ nv_pc' = "correlated") => Len(samples') <= samples_count
  /\ (nv_pc = "fill" /\ graphical_count + compute_count = 0) =>
       /\ nv_pc' = "idle"
       /\ sampling_calls' = 0
       /\ last_utilization_timestamp' = last_utilization_timestamp
  /\ nv_pc' \in {"probe", "retry"} => nv_pc' # nv_pc
C18_Sampling == [](C18_Calls) /\ [][C18_ReturnStep]_vars

\* A poll of a device that lists a process and has a watermark from an
\* earlier poll has made both sampling calls and returned: no buffer is live.
C18_Witness ==
  /\ nv_pc = "idle"
  /\ sampling_calls = 2
  /\ samples_live = 0
  /\ processes_count[nv_dev] >= 1
  /\ last_utilization_timestamp[nv_dev] > 0

\* C19: the step that rebuilds the entries of the polled device gives it as
\* many entries as the vendor returned in the two categories together (a
\* category whose query ended on an error other than insufficient-size
\* counts for none), first the graphics results and then the compute
\* results, each in the vendor's order with its PID and memory usage, its
\* category and the memory usage marked valid; this holds also when the
\* buffer grew while the compute results were queried.
C19_Entry(entry, info, type) ==
  /\ entry.type = type
  /\ entry.pid = info.pid
  /\ entry.gpu_memory_usage = info.usedGpuMemory
  /\ "gpuinfo_process_gpu_memory_usage_valid" \in entry.valid
C19_FillStep ==
  (nv_pc = "fill" /\ nv_pc' # "exit") =>
    LET graphics == IF graphical_ret = NVML_SUCCESS THEN true_graphics ELSE <<>>
        compute == IF compute_ret = NVML_SUCCESS THEN true_compute ELSE <<>>
        g == Len(graphics)
        entries == processes'[nv_dev]
    IN /\ processes_count'[nv_dev] = g + Len(compute)
       /\ Len(entries) = g + Len(compute)
       /\ \A i \in 1..g : C19_Entry(entries[i], graphics[i], "gpu_process_graphical")
       /\ \A i \in 1..Len(compute) :
            C19_Entry(entries[g + i], compute[i], "gpu_process_compute")
C19_Listing == [][C19_FillStep]_vars

\* A poll has listed one graphics process and MaxCount compute processes in
\* a buffer of exactly that many slots: the entries are the graphics result
\* followed by the compute results.
C19_Witness ==
  /\ nv_pc = "idle"
  /\ array_size = 1 + MaxCount
  /\ processes_count[nv_dev] = 1 + MaxCount
  /\ processes[nv_dev][1].type = "gpu_process_graphical"
  /\ processes[nv_dev][1].gpu_memory_usage = 101
  /\ processes[nv_dev][2].type = "gpu_process_compute"
  /\ processes[nv_dev][1 + MaxCount].gpu_memory_usage = 200 + MaxCount

\* C20: no step lowers the capacity of the shared result buffer or of a
\* device's entries; the entries a device lists and its processes_count
\* never exceed its capacity; and when the two queries of a poll are done
\* the results they returned fit the shared buffer, which has array_size
\* slots.
C20_Fits ==
  /\ \A d \in Devices :
       /\ processes_count[d] <= processes_array_size[d]
       /\ Len(processes[d]) <= processes_array_size[d]
  /\ nv_pc \in {"fill", "idle"} =>
       /\ graphical_count + compute_count <= array_size
       /\ Len(retrieved_infos) = array_size
C20_GrowStep ==
  /\ array_size' >= array_size
  /\ \A d \in Devices : processes_array_size'[d] >= processes_array_size[d]
C20_Capacities == [](C20_Fits) /\ [][C20_GrowStep]_vars

\* The second device has been polled with a single process after polls had
\* grown the shared buffer and its own entries for more: both capacities are
\* still the larger ones, and the first device has entries of its own.
C20_Witness ==
  /\ nv_pc = "idle"
  /\ nv_dev = MaxDevices
  /\ processes_count[nv_dev] = 1
  /\ processes_array_size[nv_dev] > 1 + COMMON_PROCESS_LINEAR_REALLOC_INC
  /\ array_size >= 2 * MaxCount
  /\ processes_count[1] = 2 * MaxCount

\* C21: once thread_should_exit is set it stays set while a thread exists;
\* with the flag set, the usleep that ends is the last of its sleep loop, the
\* loop test after it ends the thread function without a new poll cycle; a
\* cycle under way when the flag is set is carried to its end and is followed
\* by the sleep loop (one usleep), never by the return directly; and under
\* fairness every worker has returned some time after the flag is set.
C21_InCycle ==
  {"read", "lock", "store", "eof", "scored", "reset_lock", "reset"}
C21_CancelStep ==
  /\ (thread_should_exit /\ \E w \in Threads : workers'[w].pc # "none")
       => thread_should_exit'
  /\ (thread_should_exit /\ tv' # tv) =>
       \E w \in Threads : workers[w].pc = "sleep" /\ workers'[w].pc = "loop"
  /\ \A w \in Threads :
       LET a == workers[w].pc
           b == workers'[w].pc
       IN /\ (thread_should_exit /\ a = "sleep" /\ b # a) => b = "loop"
          /\ (thread_should_exit /\ a = "loop" /\ b # a) => b = "done"
          /\ (thread_should_exit /\ a = "start" /\ b # a) => b = "loop"
          /\ (thread_should_exit /\ a \in C21_InCycle /\ b # a) =>
               b \in C21_InCycle \cup {"sleep"}
          /\ (a = "done" /\ b # a) => b = "none"
C21_Cancellation ==
  /\ [][C21_CancelStep]_vars
  /\ thread_should_exit ~> (\A w \in Threads : workers[w].pc \in {"done", "none"})

\* gpuinfo_tpu_shutdown has raised the flag and waits in pthread_join while
\* the worker, which has not slept since it began its first cycle, has
\* finished that cycle with a record published and stands before its one
\* usleep.
C21_Witness ==
  \E w \in Threads :
    /\ thread_should_exit
    /\ tpu_caller = "pthread_join"
    /\ ~workers[w].sentinel
    /\ workers[w].pc = "sleep"
    /\ workers[w].t = 1000000 * tv.tv_sec + tv.tv_usec \div 1000
    /\ latest_chips_usage_data[1].total_memory = 1000

\* C22: a worker leaves its sleep loop with the flag not set only when the
\* wall clock stands at least 1000 milliseconds after the instant at which
\* its timestamp t was taken.  (That instant is told by t to the millisecond:
\* tv_usec / 1000 is below 1000, so t is 1000000 times the second plus the
\* milliseconds of the second.)
C22_WallMillis(x) == 1000 * x.tv_sec + x.tv_usec \div 1000
C22_TakenAtMillis(t) == 1000 * (t \div 1000000) + (t % 1000000)
C22_PeriodStep ==
  \A w \in Threads :
    (/\ workers[w].pc = "sleep"
     /\ workers'[w].pc = "loop"
     /\ ~thread_should_exit) =>
      C22_WallMillis(tv') - C22_TakenAtMillis(workers[w].t) >= 1000
C22_Period == [][C22_PeriodStep]_vars

\* C23: popen_command holds no command, the compiled form or the inline
\* form.  The first poll cycle of a session sets it, to the compiled form
\* when the temporary file was created and written and to the inline form
\* otherwise; a cycle that ends with no line read and a positive device
\* count sets the inline form, any other cycle's end leaves the command as it
\* is; the compiled form is never set in place of another command, so a
\* command that is inline stays inline until gpuinfo_tpu_shutdown frees it;
\* and every cycle that reads the subprocess has a command.
C23_StrategyStep ==
  /\ (popen_command = "NULL" /\ popen_command' # "NULL") =>
       \E w \in Threads :
         /\ workers[w].pc = "loop" /\ workers'[w].pc = "read"
         /\ popen_command' =
              (IF workers'[w].file_written THEN "py_compile" ELSE "inline")
  /\ popen_command' = "py_compile" => popen_command \in {"NULL", "py_compile"}
  /\ popen_command = "inline" =>
       \/ popen_command' = "inline"
       \/ popen_command' = "NULL" /\ tpu_call'.op = "shutdown"
             /\ tpu_call # tpu_call'
  /\ \A w \in Threads :
       (workers[w].pc = "eof" /\ workers'[w].pc # "eof") =>
         popen_command' =
           (IF workers[w].id = 0 /\ tpu_chip_count > 0
            THEN "inline" ELSE popen_command)
C23_Strategy ==
  /\ [][C23_StrategyStep]_vars
  /\ [](popen_command \in {"NULL", "py_compile", "inline"})
  /\ [](\A w \in Threads :
          workers[w].pc \in {"read", "lock", "store", "eof"} =>
            popen_command # "NULL")

\* The temporary file had been written and the compiled form chosen in this
\* cycle, the cycle has read no line of the devices found, and the inline
\* form has replaced the compiled one.
C23_Witness ==
  \E w \in Threads :
    /\ workers[w].file_written
    /\ workers[w].pc = "scored"
    /\ workers[w].id = 0
    /\ tpu_chip_count > 0
    /\ popen_command = "inline"
    /\ tpu_call.op = "get_device_handles"


\* C24: the step that reads a line without the five fields leaves the usage
\* table as it is and the worker in the reading loop of the same cycle; and
\* in a cycle that has read such a line no line with the five fields is left
\* unparsed when the loop ends.
C24_SkipStep ==
  \A w \in Threads :
    workers'[w].malformed > workers[w].malformed =>
      /\ latest_chips_usage_data' = latest_chips_usage_data
      /\ workers'[w].pc = "read"
      /\ ~workers'[w].sentinel
      /\ thread_should_exit' = thread_should_exit
C24_LaterLines ==
  \A w \in Threads :
    workers[w].malformed > 0 => workers[w].line \notin WellFormedLines
C24_Malformed == [][C24_SkipStep]_vars /\ [](C24_LaterLines)

\* C25: when a gpuinfo_tpu_refresh_dynamic_info returns, the five fields of
\* the device are marked valid if the device's slot holds a record that a
\* parsed line has published (with or without the zeroes of a soft reset),
\* and none of them is if the slot still holds the placeholder of
\* gpuinfo_tpu_init; and after a call made while the device count is 0 no
\* field of the device is marked valid.
C25_Flags ==
  {"gpuinfo_gpu_util_rate_valid", "gpuinfo_mem_util_rate_valid",
   "gpuinfo_total_memory_valid", "gpuinfo_used_memory_valid",
   "gpuinfo_free_memory_valid"}
C25_ReturnStep ==
  (tpu_caller = "refresh_copy_rest" /\ tpu_caller' = "idle") =>
    LET slot == tpu_refresh.device_id + 1
        published == latest_chips_usage_data[slot].name # <<"N", "/", "A">>
        valid == tpu_dynamic_info'[slot].valid
    IN IF published THEN C25_Flags \subseteq valid ELSE C25_Flags \cap valid = {}
C25_Disabled ==
  (/\ tpu_call.op = "refresh_dynamic_info"
   /\ tpu_call.ret = "skipped"
   /\ tpu_chip_count = 0) =>
    tpu_dynamic_info[tpu_call.device + 1].valid \cap C25_Flags = {}
C25_Validity == [][C25_ReturnStep]_vars /\ [](C25_Disabled)

\* C26: whenever the last call was a gpuinfo_nvidia_init that returned false
\* the library handle is NULL, and the get_device_handles or the shutdown
\* that follows it invokes no entry point of the library (and
\* get_device_handles returns false).
C26_FollowStep ==
  (/\ nv_call.op = "init"
   /\ nv_call.ret = "false"
   /\ nv_call'.op \in {"get_device_handles", "shutdown"}) =>
    /\ nv_call'.invoked = {}
    /\ nv_call'.op = "get_device_handles" => nv_call'.ret = "false"
C26_FailedInit ==
  /\ []((nv_call.op = "init" /\ nv_call.ret = "false") => libnvidia_ml_handle = 0)
  /\ [][C26_FollowStep]_vars

\* C27: after the correlation, every entry of the device's process list
\* whose PID is that of an accepted sample has its three utilization fields
\* marked valid, an entry that repeats the PID of an earlier entry included.
C27_EveryEntry ==
  nv_pc = "correlated" =>
    LET entries == processes[nv_dev]
        wm == last_utilization_timestamp[nv_dev]
    IN \A j \in 1..Len(entries) :
         (\E i \in 1..Len(samples) :
            /\ samples[i].pid = entries[j].pid
            /\ ClaimAccepts(samples[i], entries, wm))
           => UsageFlags \subseteq entries[j].valid

\* C28: after the correlation, an entry whose utilization fields are marked
\* valid holds the values of a sample that has the greatest timestamp among
\* the accepted samples of the entry's PID, whatever the order of the
\* samples in the buffer.
C28_Newest ==
  nv_pc = "correlated" =>
    LET entries == processes[nv_dev]
        wm == last_utilization_timestamp[nv_dev]
    IN \A j \in 1..Len(entries) :
         (entries[j].valid \cap UsageFlags # {}) =>
           LET mine == {i \in 1..Len(samples) :
                          /\ samples[i].pid = entries[j].pid
                          /\ ClaimAccepts(samples[i], entries, wm)}
           IN \E i \in mine :
                /\ \A k \in mine : samples[k].timeStamp <= samples[i].timeStamp
                /\ entries[j].gpu_usage = samples[i].smUtil
                /\ entries[j].encode_usage = samples[i].encUtil
                /\ entries[j].decode_usage = samples[i].decUtil

\* C29: every slot of the usage table holds the placeholder of
\* gpuinfo_tpu_init or a record whose device_id is the slot's index.
C29_Placeholder ==
  [name |-> <<"N", "/", "A">>, device_id |-> 0, memory_usage |-> 0,
   total_memory |-> 0, duty_cycle_pct |-> 0]
C29_SlotOfDevice ==
  \A i \in DOMAIN latest_chips_usage_data :
    \/ latest_chips_usage_data[i] = C29_Placeholder
    \/ latest_chips_usage_data[i].device_id = i - 1

\* C30: with N the number of slots gpuinfo_tpu_init allocated, the worker
\* stores a record only at an index in 0 .. N-1, the soft reset runs over
\* at most N slots, a refresh copies from an index in 0 .. N-1, the block of
\* the table is allocated at each of these accesses, and no access outside
\* the table was made.
C30_Indexing ==
  LET N == Len(latest_chips_usage_data)
      live == tpu_heap["latest_chips_usage_data"] >= 1
  IN /\ \A w \in Threads :
          /\ workers[w].pc = "store" =>
               workers[w].id >= 0 /\ workers[w].id < N /\ live
          /\ workers[w].pc = "reset" => tpu_chip_count <= N /\ live
     /\ tpu_caller \in {"refresh_copy", "refresh_copy_rest"} =>
          tpu_refresh.device_id >= 0 /\ tpu_refresh.device_id < N /\ live
     /\ ~tpu_out_of_bounds

\* A refresh has passed the test of line 314 and holds the mutex at line 317
\* when the worker, which had published a record, has read the sentinel and
\* set the device count to 0.
C30_Witness ==
  /\ tpu_caller = "refresh_copy"
  /\ tpu_chip_count = 0
  /\ \E w \in Threads : workers[w].sentinel /\ workers[w].pc # "done"
  /\ latest_chips_usage_data[tpu_refresh.device_id + 1].total_memory = 1000
====
